---------------------------- MODULE Spec2Model ----------------------------
(***************************************************************************)
(* Model of the ticket-status decoder, the polling loop and the batch      *)
(* query of sunatlib (examples/integrated_example.go), of the two          *)
(* validation response parsers (validation.go, document_validation.go),    *)
(* of the fault handling of the three SUNATClient parsers, of the          *)
(* parameter checks of ValidationClient.ValidateDocument, of              *)
(* GenerateVoidedDocumentsSeries, of SendVoidedDocuments followed by       *)
(* GetVoidedDocumentsStatus, and of the certificate and signing calls of   *)
(* SUNATClient (sunat.go, signer/xmlsigner.go).                            *)
(*                                                                         *)
(* Strings are sequences of tokens.  A token is an XML marker the code     *)
(* searches for, or a piece of text that holds no marker.  strings.Index   *)
(* and strings.Contains are computed at token granularity, and a Go        *)
(* substring s[a:b] is the SubSeq of tokens between two markers.           *)
(***************************************************************************)
EXTENDS Integers, Sequences, FiniteSets, TLC

VARIABLES
    dBody,        \* decoder: the response body handed to the decoder
    dTicket,      \* decoder: the ticket handed to the decoder
    dResult,      \* decoder: the response it returned, NilResponse before the call
    now,          \* the clock (time.Now), in time units
    qlog,         \* every call of QueryVoidedDocumentsTicket so far: ticket, start, end, result
    nCalls,       \* the HTTP requests sent so far
    nSleeps,      \* the calls of time.Sleep so far
    wpc,          \* WaitForTicketProcessing: "start", "query", "sleep", "done"
    wTicket,      \* WaitForTicketProcessing: its ticket argument
    maxWaitTime,  \* WaitForTicketProcessing: its maxWaitTime argument
    pollInterval, \* WaitForTicketProcessing: its pollInterval argument, defaulted at entry
    startTime,    \* WaitForTicketProcessing: time.Now() at entry
    wRet,         \* WaitForTicketProcessing: what it returned, NoReturn before
    bpc,          \* BatchQueryTickets: "start", "query", "sleep", "done"
    tickets,      \* BatchQueryTickets: its argument
    bIdx,         \* BatchQueryTickets: the position of the range loop
    responses,    \* BatchQueryTickets: the responses slice
    bRet,         \* BatchQueryTickets: what it returned, NoReturn before
    vBody,        \* validation parsers: the response body
    vHttp,        \* validation parsers: the HTTP status code of the response
    vXmlOk,       \* validation parsers: whether xml.Unmarshal accepts the body
    vResult,      \* ValidationClient.parseValidationResponse: its result, NilResponse before
    dvResult,     \* DocumentValidationClient.parseValidationResponse: its result, NilResponse before
    fBody,        \* SUNATClient parsers: the response body
    fBill,        \* parseResponse: its result, NilResponse before
    fVoided,      \* parseVoidedDocumentsResponse: its result, NilResponse before
    fStatus,      \* parseTicketStatusResponse: its result, NilResponse before
    pParams,      \* ValidateDocument: its params argument
    pNet,         \* ValidateDocument: what the network does with the request
    pSent,        \* ValidateDocument: the HTTP requests handed to the client
    pRet,         \* ValidateDocument: what it returned, NoReturn before
    sDate,        \* GenerateVoidedDocumentsSeries: its referenceDate argument
    sSeq,         \* GenerateVoidedDocumentsSeries: its sequential argument
    sRet,         \* GenerateVoidedDocumentsSeries: what it returned, NoReturn before
    rq,           \* SendVoidedDocuments: its request argument
    cSigner,      \* SendVoidedDocuments: whether c.signer is set
    xmlsec,       \* SendVoidedDocuments: what the xmlsec1 program does
    sndNet,       \* SendVoidedDocuments: what the network does with the request
    sndReply,     \* SendVoidedDocuments: the body the service answers with
    sndLog,       \* SendVoidedDocuments: the steps it performed after validation
    sndRet,       \* SendVoidedDocuments: what it returned, NoReturn before
    gNet,         \* GetVoidedDocumentsStatus: what the network does with the request
    gBody,        \* GetVoidedDocumentsStatus: the body the service answers with
    gRet,         \* GetVoidedDocumentsStatus: what it returned, NoReturn before
    signer,       \* certificate calls: c.signer, NilSigner or an XMLSigner
    certLog,      \* certificate calls: every call so far with its outcome
    xIn,          \* concurrent SignXML: the document of each call
    xpc,          \* concurrent SignXML: the position of each call
    templateFile, \* concurrent SignXML: the content of tempDir/template.xml
    signedFile,   \* concurrent SignXML: the content of tempDir/signed.xml
    xRet          \* concurrent SignXML: what each call returned, NoReturn before

decodeVars == <<dBody, dTicket, dResult>>

clockVars == <<now, qlog, nCalls, nSleeps>>

waitVars == <<wpc, wTicket, maxWaitTime, pollInterval, startTime, wRet>>

batchVars == <<bpc, tickets, bIdx, responses, bRet>>

validationVars == <<vBody, vHttp, vXmlOk, vResult, dvResult>>

faultVars == <<fBody, fBill, fVoided, fStatus>>

paramVars == <<pParams, pNet, pSent, pRet>>

seriesVars == <<sDate, sSeq, sRet>>

sendVars ==
    <<rq, cSigner, xmlsec, sndNet, sndReply, sndLog, sndRet, gNet, gBody, gRet>>

certVars == <<signer, certLog>>

signVars == <<xIn, xpc, templateFile, signedFile, xRet>>

flowVars == <<sendVars, certVars, signVars>>

libVars == <<validationVars, faultVars, paramVars, seriesVars, flowVars>>

vars == <<decodeVars, clockVars, waitVars, batchVars, libVars>>

(***************************************************************************)
(* Bounds of the model.                                                    *)
(***************************************************************************)

\* The most position-dependent fields in a response body.
MaxFields == 3

\* The largest maxWaitTime argument of WaitForTicketProcessing, in seconds.
MaxWaitTime == 4

\* The longest list handed to BatchQueryTickets.
MaxTickets == 2

(***************************************************************************)
(* Strings                                                                 *)
(***************************************************************************)

\* strings.Contains(tok, marker) for one token: the marker itself, or the
\* namespaced spelling that holds the bare element name as a substring.
TokenContains(tok, marker) ==
    \/ tok = marker
    \/ tok = "<br:getStatusResponse" /\ marker = "getStatusResponse"
    \/ tok = "<ns2:getStatusResponse" /\ marker = "getStatusResponse"
    \/ tok = "no ha sido informada" /\ marker = "ha sido informada"

\* strings.Index(s, marker): the first position of marker in s, -1 if none.
\* Positions are 1-based token positions.
Index(s, marker) ==
    IF \E i \in 1..Len(s) : TokenContains(s[i], marker)
    THEN CHOOSE i \in 1..Len(s) :
            /\ TokenContains(s[i], marker)
            /\ \A j \in 1..(i - 1) : ~TokenContains(s[j], marker)
    ELSE -1

\* strings.Contains(s, marker)
Contains(s, marker) == Index(s, marker) # -1

\* strings.ReplaceAll(s, old, new) where old is one entity token.
ReplaceAll(s, old, new) ==
    [i \in 1..Len(s) |-> IF s[i] = old THEN new ELSE s[i]]

\* The four entity replacements applied to an extracted fault string, in the
\* order of the source.
DecodeEntities(s) ==
    ReplaceAll(ReplaceAll(ReplaceAll(ReplaceAll(s,
        "&#243;", "ó"), "&lt;", "<"), "&gt;", ">"), "&amp;", "&")

\* The text between the first open marker and the first close marker that
\* follows it: [found |-> FALSE] when either is missing.  This is the
\* start/end computation every field extraction of the decoder repeats.
ExtractField(s, open, close) ==
    LET start == Index(s, open) IN
    IF start = -1 THEN [found |-> FALSE, text |-> << >>]
    ELSE LET rest == SubSeq(s, start + 1, Len(s))
             end  == Index(rest, close)
         IN IF end = -1 THEN [found |-> FALSE, text |-> << >>]
            ELSE [found |-> TRUE, text |-> SubSeq(rest, 1, end - 1)]

(***************************************************************************)
(* base64.StdEncoding.DecodeString                                         *)
(***************************************************************************)

\* The characters of a text token as base64 digit values (A=0 .. /=63); -1
\* stands for a character outside the alphabet.  Markers hold "<".
B64Digits(tok) ==
    CASE tok = "QUJD" -> <<16, 20, 9, 3>>
      [] tok = "0"    -> <<52>>
      [] tok = "98"   -> <<61, 60>>
      [] tok = "99"   -> <<61, 61>>
      [] tok = "00"   -> <<52, 52>>
      [] OTHER        -> <<-1>>

RECURSIVE Flatten(_)
Flatten(s) ==
    IF s = << >> THEN << >> ELSE B64Digits(Head(s)) \o Flatten(Tail(s))

\* The three bytes of one group of four digits.
RECURSIVE DecodeGroups(_)
DecodeGroups(d) ==
    IF Len(d) < 4 THEN << >>
    ELSE LET v == ((d[1] * 64 + d[2]) * 64 + d[3]) * 64 + d[4]
         IN <<v \div 65536, (v \div 256) % 256, v % 256>>
                \o DecodeGroups(SubSeq(d, 5, Len(d)))

\* DecodeString: an error for a digit outside the alphabet or a length that
\* is no multiple of four (StdEncoding is padded; the model's text tokens
\* hold no padding), else the decoded bytes (a non-nil slice, empty for the
\* empty string).
DecodeString(s) ==
    LET d == Flatten(s) IN
    IF (\E i \in 1..Len(d) : d[i] = -1) \/ Len(d) % 4 # 0
    THEN [err |-> TRUE, bytes |-> << >>]
    ELSE [err |-> FALSE, bytes |-> DecodeGroups(d)]

(***************************************************************************)
(* TicketStatusResponse                                                    *)
(***************************************************************************)

\* A nil []byte, as opposed to an empty one.
NilBytes == [isNil |-> TRUE, data |-> << >>]

Bytes(b) == [isNil |-> FALSE, data |-> b]

\* A nil *TicketStatusResponse.
NilResponse == [isNilResponse |-> TRUE]

\* The zero value the decoder starts from: ResponseXML and Ticket set.
NewResponse(responseData, tkt) ==
    [ Success             |-> FALSE,
      Message             |-> << >>,
      Ticket              |-> tkt,
      StatusCode          |-> << >>,
      StatusDescription   |-> << >>,
      ResponseXML         |-> responseData,
      ApplicationResponse |-> NilBytes,
      Error               |-> << >> ]

\* A status code as the Go string it is: the joined text of its tokens.
\* Only a single token can spell "0", "98" or "99".
CodeIs(code, lit) == code = <<lit>>

GetTicketStatusDescription(r) ==
    CASE CodeIs(r.StatusCode, "0")  -> <<"Procesado correctamente">>
      [] CodeIs(r.StatusCode, "98") -> <<"En proceso">>
      [] CodeIs(r.StatusCode, "99") -> <<"Procesado con errores">>
      [] OTHER                      -> r.StatusDescription

\* Mutant of IsProcessed: "99" is not counted as processed.
IsProcessed_OnlySuccess(r) == CodeIs(r.StatusCode, "0")

IsProcessed(r) == CodeIs(r.StatusCode, "0") \/ CodeIs(r.StatusCode, "99")

IsSuccessful(r) == CodeIs(r.StatusCode, "0")

IsInProgress(r) == CodeIs(r.StatusCode, "98")

HasErrors(r) == CodeIs(r.StatusCode, "99")

HasApplicationResponse(r) == Len(r.ApplicationResponse.data) > 0

(***************************************************************************)
(* parseTicketStatusResponse                                               *)
(***************************************************************************)

MsgProcessed == <<"Comunicación de baja procesada exitosamente">>

MsgInProgress == <<"Comunicación de baja en proceso de validación">>

MsgWithErrors == <<"Comunicación de baja procesada con errores">>

MsgNotRecognized == <<"Respuesta no reconocida de SUNAT para consulta de ticket">>

MsgTimeout == <<"Timeout esperando procesamiento del ticket">>

\* Mutant of IsFaultBody: one of the two spellings is not looked for.
IsFaultBody_OneSpelling(responseStr) == Contains(responseStr, "<soap-env:Fault")

\* The fault test of the decoder: either of the two spellings of the opening tag.
IsFaultBody(responseStr) ==
    Contains(responseStr, "<soap-env:Fault") \/ Contains(responseStr, "<soap:Fault")

\* Mutant of IsStatusBody: only the br-prefixed element is looked for.
IsStatusBody_PrefixedOnly(responseStr) == Contains(responseStr, "<br:getStatusResponse")

\* The test for a getStatus response: the prefixed or the bare element name.
IsStatusBody(responseStr) ==
    \/ Contains(responseStr, "<br:getStatusResponse")
    \/ Contains(responseStr, "getStatusResponse")

\* The fault branch: Success stays false, the fault string, when there is
\* one, becomes the entity-decoded Message.
ParseFault(responseStr, response) ==
    LET f == ExtractField(responseStr, "<faultstring>", "</faultstring>") IN
    [response EXCEPT
        !.Success = FALSE,
        !.Message = IF f.found THEN DecodeEntities(f.text) ELSE @]

\* The <content> extraction of the "0" and "99" branches: the decoded bytes
\* when the field is there and decodes, else the field is left as it was.
ExtractContent(responseStr, response) ==
    LET c == ExtractField(responseStr, "<content>", "</content>") IN
    IF c.found /\ ~DecodeString(c.text).err
    THEN [response EXCEPT !.ApplicationResponse = Bytes(DecodeString(c.text).bytes)]
    ELSE response

\* Mutant of ParseStatusBranch: the content of a "99" response is not extracted.
ParseStatusBranch_NoErrorContent(responseStr, response) ==
    IF CodeIs(response.StatusCode, "0")
    THEN [ExtractContent(responseStr, response) EXCEPT !.Message = MsgProcessed]
    ELSE IF CodeIs(response.StatusCode, "98")
    THEN [response EXCEPT !.Message = MsgInProgress]
    ELSE IF CodeIs(response.StatusCode, "99")
    THEN [response EXCEPT !.Message = MsgWithErrors]
    ELSE response

\* The branch on the status code of a getStatus response.
ParseStatusBranch(responseStr, response) ==
    IF CodeIs(response.StatusCode, "0")
    THEN [ExtractContent(responseStr, response) EXCEPT !.Message = MsgProcessed]
    ELSE IF CodeIs(response.StatusCode, "98")
    THEN [response EXCEPT !.Message = MsgInProgress]
    ELSE IF CodeIs(response.StatusCode, "99")
    THEN ExtractContent(responseStr, [response EXCEPT !.Message = MsgWithErrors])
    ELSE response

\* The getStatus branch: Success, the status code, its description, then the
\* branch on the code.
ParseStatus(responseStr, response) ==
    LET sc == ExtractField(responseStr, "<statusCode>", "</statusCode>")
        r1 == [response EXCEPT
                  !.Success = TRUE,
                  !.StatusCode = IF sc.found THEN sc.text ELSE @]
        r2 == [r1 EXCEPT !.StatusDescription = GetTicketStatusDescription(r1)]
    IN ParseStatusBranch(responseStr, r2)

\* The last branch: neither a fault nor a getStatus response.
ParseUnrecognized(response) ==
    [response EXCEPT !.Success = FALSE, !.Message = MsgNotRecognized]

parseTicketStatusResponse(responseData, tkt) ==
    LET response == NewResponse(responseData, tkt) IN
    IF IsFaultBody(responseData) THEN ParseFault(responseData, response)
    ELSE IF IsStatusBody(responseData) THEN ParseStatus(responseData, response)
    ELSE ParseUnrecognized(response)

(***************************************************************************)
(* Response bodies                                                         *)
(***************************************************************************)

\* The status codes a body may carry: the three known ones and one that is
\* none of them (a leading-zero variant).
StatusCodes == {"0", "98", "99", "00"}

\* The fields of a response body whose position matters to the decoder: a
\* fault string with an entity, a status code field, a content field with
\* well-formed, malformed and empty base64, and fields whose closing tag is
\* missing.
Fields ==
    { <<"<faultstring>", "El ticket no existe", "&amp;", "</faultstring>">>,
      <<"<content>", "QUJD", "</content>">>,
      <<"<content>", "!!", "</content>">>,
      <<"<content>", "</content>">>,
      <<"<content>", "QUJD">>,
      <<"<statusCode>", "0">> }
    \cup { <<"<statusCode>", c, "</statusCode>">> : c \in StatusCodes }

\* The opening of the response element: none, or getStatusResponse in one of
\* two spellings.  The decoder only asks whether it is there.
StatusElements == { << >>, <<"<br:getStatusResponse">>, <<"<ns2:getStatusResponse">> }

\* The opening of a fault element: none, or one of the two spellings.  The
\* decoder only asks whether it is there.
FaultTags == { << >>, <<"<soap-env:Fault">>, <<"<soap:Fault">> }

RECURSIVE FieldSeqs(_)
FieldSeqs(n) ==
    IF n = 0 THEN { << >> }
    ELSE LET shorter == FieldSeqs(n - 1)
         IN shorter \cup { b \o f : b \in shorter, f \in Fields }

\* Every body made of an optional response element, an optional fault tag
\* and at most MaxFields fields in any order, repeats included.
Bodies ==
    { e \o f \o b : e \in StatusElements, f \in FaultTags, b \in FieldSeqs(MaxFields) }

TicketIds == {"", "A", "B"}

(***************************************************************************)
(* QueryVoidedDocumentsTicket                                              *)
(***************************************************************************)

\* A nil error is the empty sequence; an error is the sequence of its
\* messages, outermost first (fmt.Errorf with %w prepends one).
NilError == << >>

Wrap(msg, err) == <<msg>> \o err

\* What the transport does with one request: "ok" (a body is read),
\* "create" (http.NewRequest fails), "send" (Do fails), "read" (ReadAll fails).
NetOutcomes == {"ok", "create", "send", "read"}

\* The error of the transport step that failed.
NetError(net) ==
    CASE net = "create" -> Wrap("failed to create HTTP request", <<"net">>)
      [] net = "send"   -> Wrap("failed to send HTTP request", <<"net">>)
      [] net = "read"   -> Wrap("failed to read response", <<"net">>)
      [] OTHER          -> NilError

\* Whether the call puts a request on the wire: not for an empty ticket, not
\* when the request could not be built.
SendsRequest(tkt, net) == tkt # "" /\ net # "create"

\* The (response, error) pair of one call, given what the transport does and
\* the body the service answers with.
QueryVoidedDocumentsTicket(tkt, net, body) ==
    IF tkt = ""
    THEN [resp |-> NilResponse, err |-> <<"ticket number is required">>]
    ELSE IF net # "ok"
    THEN [resp |-> NilResponse, err |-> NetError(net)]
    ELSE [resp |-> parseTicketStatusResponse(body, tkt), err |-> NilError]

\* The answers of the service the polling loop and the batch are run against:
\* in progress, processed with a receipt, processed with errors, an unknown
\* status code, a status response without a code, a fault, an empty body.
BodyInProgress ==
    <<"<br:getStatusResponse", "<statusCode>", "98", "</statusCode>">>

BodyProcessed ==
    <<"<br:getStatusResponse", "<statusCode>", "0", "</statusCode>",
      "<content>", "QUJD", "</content>">>

BodyWithErrors ==
    <<"<ns2:getStatusResponse", "<statusCode>", "99", "</statusCode>",
      "<content>", "QUJD", "</content>">>

BodyUnknownCode ==
    <<"<br:getStatusResponse", "<statusCode>", "00", "</statusCode>">>

BodyNoCode == <<"<br:getStatusResponse">>

BodyFault ==
    <<"<soap-env:Fault", "<faultstring>", "El ticket no existe", "&amp;", "</faultstring>">>

BodyEmpty == << >>

ServiceBodies ==
    { BodyInProgress, BodyProcessed, BodyWithErrors, BodyUnknownCode,
      BodyNoCode, BodyFault, BodyEmpty }

\* How long one call may take, and the clock readings a run may start at.
QueryDurations == {0, 1}

StartTimes == {0, 5}

\* What a function returned: a result and an error.  NoReturn before it returns.
NoReturn == [returned |-> FALSE]

Return(res, e) == [returned |-> TRUE, result |-> res, err |-> e]

\* The entry of the call log for one call of QueryVoidedDocumentsTicket.
LogEntry(tkt, start, end, q) ==
    [ticket |-> tkt, start |-> start, end |-> end, resp |-> q.resp, err |-> q.err]

(***************************************************************************)
(* The decoder applied to every body                                       *)
(***************************************************************************)

\* The variables of the decoder, at rest.
DecodeIdle == dBody = << >> /\ dTicket = "" /\ dResult = NilResponse

\* The clock and the counters before any call.
ClockInit == now \in StartTimes /\ qlog = << >> /\ nCalls = 0 /\ nSleeps = 0

\* The variables of WaitForTicketProcessing, not called.
WaitIdle ==
    /\ wpc = "idle" /\ wTicket = "" /\ maxWaitTime = 0 /\ pollInterval = 0
    /\ startTime = 0 /\ wRet = NoReturn

\* The variables of BatchQueryTickets, not called.
BatchIdle ==
    /\ bpc = "idle" /\ tickets = << >> /\ bIdx = 0 /\ responses = << >>
    /\ bRet = NoReturn

\* The variables of the two validation parsers, not called.
ValidationIdle ==
    /\ vBody = << >> /\ vHttp = 0 /\ vXmlOk = FALSE
    /\ vResult = NilResponse /\ dvResult = NilResponse

\* The variables of the three SUNATClient parsers, not called.
FaultIdle ==
    /\ fBody = << >> /\ fBill = NilResponse /\ fVoided = NilResponse
    /\ fStatus = NilResponse

\* The variables of ValidateDocument, not called.
ParamIdle == pParams = << >> /\ pNet = "ok" /\ pSent = 0 /\ pRet = NoReturn

\* The variables of GenerateVoidedDocumentsSeries, not called.
SeriesIdle == sDate = << >> /\ sSeq = 0 /\ sRet = NoReturn

\* A nil *XMLSigner.
NilSigner == [isNilSigner |-> TRUE]

\* The variables of SendVoidedDocuments and GetVoidedDocumentsStatus, not
\* called.
SendIdle ==
    /\ rq = << >> /\ cSigner = FALSE /\ xmlsec = "ok" /\ sndNet = "ok"
    /\ sndReply = << >> /\ sndLog = << >> /\ sndRet = NoReturn
    /\ gNet = "ok" /\ gBody = << >> /\ gRet = NoReturn

\* The variables of the certificate calls, none made.
CertIdle == signer = NilSigner /\ certLog = << >>

\* The variables of the concurrent SignXML calls, none made.
SignIdle ==
    /\ xIn = << >> /\ xpc = << >> /\ templateFile = << >>
    /\ signedFile = << >> /\ xRet = << >>

FlowIdle == SendIdle /\ CertIdle /\ SignIdle

InitDecode ==
    /\ dBody \in Bodies
    /\ dTicket = "A"
    /\ dResult = NilResponse
    /\ now = 0 /\ qlog = << >> /\ nCalls = 0 /\ nSleeps = 0
    /\ WaitIdle
    /\ BatchIdle
    /\ ValidationIdle /\ FaultIdle /\ ParamIdle /\ SeriesIdle
    /\ FlowIdle

\* One call of parseTicketStatusResponse.
Decode ==
    /\ dResult = NilResponse
    /\ dResult' = parseTicketStatusResponse(dBody, dTicket)
    /\ UNCHANGED <<dBody, dTicket, clockVars, waitVars, batchVars, libVars>>

NextDecode == Decode

SpecDecode == InitDecode /\ [][NextDecode]_vars

(***************************************************************************)
(* Properties of the decoder (SpecDecode)                                  *)
(***************************************************************************)

Decoded == dResult # NilResponse

\* The body holds a fault opening tag in one of the two observed spellings.
HasFaultTag(b) ==
    \E i \in 1..Len(b) : b[i] \in {"<soap-env:Fault", "<soap:Fault"}

\* The body holds a getStatusResponse element, whatever its prefix.
HasStatusElement(b) ==
    \E i \in 1..Len(b) :
        b[i] \in {"<br:getStatusResponse", "<ns2:getStatusResponse", "getStatusResponse"}

HasToken(b, tok) == \E i \in 1..Len(b) : b[i] = tok

\* C8: a body that holds a fault opening tag decodes to Success = false, an
\* empty status code and no payload, whatever else the body holds.
C8_FaultShortCircuits ==
    (Decoded /\ HasFaultTag(dBody)) =>
        /\ dResult.Success = FALSE
        /\ dResult.StatusCode = << >>
        /\ dResult.ApplicationResponse = NilBytes

\* C8 witness: a decoded body with a fault tag and also a getStatusResponse
\* element, <statusCode>0</statusCode> and a well-formed content field.
C8_Witness ==
    /\ Decoded
    /\ HasFaultTag(dBody)
    /\ HasStatusElement(dBody)
    /\ ExtractField(dBody, "<statusCode>", "</statusCode>") = [found |-> TRUE, text |-> <<"0">>]
    /\ ExtractField(dBody, "<content>", "</content>") = [found |-> TRUE, text |-> <<"QUJD">>]
    /\ dResult.Success = FALSE

\* The first content field of the body and its decoding.
FirstContent(b) == ExtractField(b, "<content>", "</content>")

ContentWellFormed(b) == FirstContent(b).found /\ ~DecodeString(FirstContent(b).text).err

ContentMalformed(b) == FirstContent(b).found /\ DecodeString(FirstContent(b).text).err

\* The body with its content opening tags deleted: the same response without
\* a content field.
WithoutContent(b) == SelectSeq(b, LAMBDA t : t # "<content>")

\* The content field lies outside the status code field.
ContentOutsideStatusCode(b) ==
    ~HasToken(ExtractField(b, "<statusCode>", "</statusCode>").text, "<content>")

\* C9: for a non-fault getStatus response the payload is present exactly when
\* the status code is "0" or "99" and the first content field is well-formed
\* base64; with malformed base64 the payload is absent and Success, status
\* code and message are those of the response without a content field; a
\* response with status code "98" carries no payload.
C9_PayloadRule ==
    (Decoded /\ ~HasFaultTag(dBody) /\ HasStatusElement(dBody)) =>
        /\ (dResult.ApplicationResponse # NilBytes) <=>
              /\ dResult.StatusCode \in {<<"0">>, <<"99">>}
              /\ ContentWellFormed(dBody)
        /\ (ContentMalformed(dBody) /\ ContentOutsideStatusCode(dBody)) =>
              LET bare == parseTicketStatusResponse(WithoutContent(dBody), dTicket) IN
              /\ dResult.ApplicationResponse = NilBytes
              /\ dResult.Success = bare.Success
              /\ dResult.StatusCode = bare.StatusCode
              /\ dResult.Message = bare.Message
        /\ dResult.StatusCode = <<"98">> => dResult.ApplicationResponse = NilBytes

\* C9 witness: status code "99" with a well-formed content field decoded into
\* the payload bytes "ABC".
C9_Witness ==
    /\ Decoded
    /\ ~HasFaultTag(dBody)
    /\ dResult.StatusCode = <<"99">>
    /\ dResult.ApplicationResponse = Bytes(<<65, 66, 67>>)

\* C10 as stated: Success is false exactly when the body holds a fault tag.
C10_SuccessIffNoFault ==
    Decoded => (dResult.Success = FALSE <=> HasFaultTag(dBody))

\* C10 amended: Success is false exactly when the body holds a fault tag or
\* holds no getStatusResponse element; a getStatus response without a fault
\* has Success = true whatever its status code, also an unknown or absent one.
C10_SuccessIffStatusNoFault ==
    Decoded =>
        (dResult.Success = FALSE <=> (HasFaultTag(dBody) \/ ~HasStatusElement(dBody)))

\* C10 witness: a getStatus response without a fault and without a status code
\* field, decoded with Success = true.
C10_Witness ==
    /\ Decoded
    /\ ~HasFaultTag(dBody)
    /\ HasStatusElement(dBody)
    /\ ~HasToken(dBody, "<statusCode>")
    /\ dResult.Success = TRUE
    /\ dResult.StatusCode = << >>

(***************************************************************************)
(* WaitForTicketProcessing                                                 *)
(***************************************************************************)

\* 30 * time.Second.  The clock of the polling loop counts seconds.
DefaultPollInterval == 30

\* Mutant of AfterSleep: the sleep does not wait.
AfterSleep_NoWait(t, d) == t

\* The clock after time.Sleep(d) called at t.
AfterSleep(t, d) == t + d

\* The pollInterval arguments tried: negative, zero and two positive ones.
PollIntervals == {-1, 0, 1, 2}

\* Mutant of EffectiveInterval: only a zero interval is replaced by the default.
EffectiveInterval_NegativeKept(p) == IF p = 0 THEN DefaultPollInterval ELSE p

\* The interval the loop sleeps for: the default for a zero or negative one.
EffectiveInterval(p) == IF p <= 0 THEN DefaultPollInterval ELSE p

\* Mutant of DeadlineReached: the clock is compared, not the time elapsed.
DeadlineReached_Absolute(t, start, maxWait) == t >= maxWait

\* The deadline check: time.Since(startTime) >= maxWaitTime.
DeadlineReached(t, start, maxWait) == t - start >= maxWait

\* Mutant of WaitDecision: an outcome with Success = false is not returned at once.
WaitDecision_NoSuccessCheck(q, t, start, maxWait) ==
    IF q.err # NilError
    THEN [return |-> TRUE, ret |-> Return(NilResponse, Wrap("error querying ticket", q.err))]
    ELSE IF IsProcessed(q.resp)
    THEN [return |-> TRUE, ret |-> Return(q.resp, NilError)]
    ELSE IF DeadlineReached(t, start, maxWait)
    THEN [return |-> TRUE,
          ret |-> Return([q.resp EXCEPT !.Message = MsgTimeout], NilError)]
    ELSE [return |-> FALSE, ret |-> NoReturn]

\* Mutant of WaitDecision: the deadline is reported as an error, without the outcome.
WaitDecision_TimeoutAsError(q, t, start, maxWait) ==
    IF q.err # NilError
    THEN [return |-> TRUE, ret |-> Return(NilResponse, Wrap("error querying ticket", q.err))]
    ELSE IF ~q.resp.Success
    THEN [return |-> TRUE, ret |-> Return(q.resp, NilError)]
    ELSE IF IsProcessed(q.resp)
    THEN [return |-> TRUE, ret |-> Return(q.resp, NilError)]
    ELSE IF DeadlineReached(t, start, maxWait)
    THEN [return |-> TRUE, ret |-> Return(NilResponse, MsgTimeout)]
    ELSE [return |-> FALSE, ret |-> NoReturn]

\* Mutant of WaitDecision: a query that failed is tried again until the deadline.
WaitDecision_RetryOnError(q, t, start, maxWait) ==
    IF q.err # NilError
    THEN IF DeadlineReached(t, start, maxWait)
         THEN [return |-> TRUE,
               ret |-> Return(NilResponse, Wrap("error querying ticket", q.err))]
         ELSE [return |-> FALSE, ret |-> NoReturn]
    ELSE IF ~q.resp.Success
    THEN [return |-> TRUE, ret |-> Return(q.resp, NilError)]
    ELSE IF IsProcessed(q.resp)
    THEN [return |-> TRUE, ret |-> Return(q.resp, NilError)]
    ELSE IF DeadlineReached(t, start, maxWait)
    THEN [return |-> TRUE,
          ret |-> Return([q.resp EXCEPT !.Message = MsgTimeout], NilError)]
    ELSE [return |-> FALSE, ret |-> NoReturn]

\* What the loop body does with the result q of its query, the clock reading
\* t after the query: return (a result and an error), or go on to sleep.
WaitDecision(q, t, start, maxWait) ==
    IF q.err # NilError
    THEN [return |-> TRUE, ret |-> Return(NilResponse, Wrap("error querying ticket", q.err))]
    ELSE IF ~q.resp.Success
    THEN [return |-> TRUE, ret |-> Return(q.resp, NilError)]
    ELSE IF IsProcessed(q.resp)
    THEN [return |-> TRUE, ret |-> Return(q.resp, NilError)]
    ELSE IF DeadlineReached(t, start, maxWait)
    THEN [return |-> TRUE,
          ret |-> Return([q.resp EXCEPT !.Message = MsgTimeout], NilError)]
    ELSE [return |-> FALSE, ret |-> NoReturn]

InitWait ==
    /\ DecodeIdle
    /\ ClockInit
    /\ BatchIdle
    /\ ValidationIdle /\ FaultIdle /\ ParamIdle /\ SeriesIdle
    /\ FlowIdle
    /\ wpc = "start"
    /\ wTicket \in {"", "A"}
    /\ maxWaitTime \in -1..MaxWaitTime
    /\ pollInterval \in PollIntervals
    /\ startTime = 0
    /\ wRet = NoReturn

\* The entry of the function: the interval is defaulted, the start time taken.
WaitStart ==
    /\ wpc = "start"
    /\ pollInterval' = EffectiveInterval(pollInterval)
    /\ startTime' = now
    /\ wpc' = "query"
    /\ UNCHANGED <<decodeVars, clockVars, batchVars, libVars, wTicket, maxWaitTime, wRet>>

\* One pass of the loop down to the sleep: the query, which takes d time
\* units, and the three checks on its result.
WaitQuery ==
    /\ wpc = "query"
    /\ \E net \in NetOutcomes, body \in ServiceBodies, d \in QueryDurations :
          LET q   == QueryVoidedDocumentsTicket(wTicket, net, body)
              t   == now + d
              dec == WaitDecision(q, t, startTime, maxWaitTime)
          IN /\ now' = t
             /\ qlog' = Append(qlog, LogEntry(wTicket, now, t, q))
             /\ nCalls' = IF SendsRequest(wTicket, net) THEN nCalls + 1 ELSE nCalls
             /\ wRet' = dec.ret
             /\ wpc' = IF dec.return THEN "done" ELSE "sleep"
    /\ UNCHANGED <<decodeVars, batchVars, libVars, nSleeps, wTicket, maxWaitTime,
                   pollInterval, startTime>>

\* time.Sleep(pollInterval), then back to the top of the loop.  A sleep that
\* overruns is covered by the duration of the query that follows it.
WaitSleep ==
    /\ wpc = "sleep"
    /\ now' = AfterSleep(now, pollInterval)
    /\ nSleeps' = nSleeps + 1
    /\ wpc' = "query"
    /\ UNCHANGED <<decodeVars, batchVars, libVars, qlog, nCalls, wTicket, maxWaitTime,
                   pollInterval, startTime, wRet>>

NextWait == WaitStart \/ WaitQuery \/ WaitSleep

SpecWait == InitWait /\ [][NextWait]_vars

(***************************************************************************)
(* Properties of WaitForTicketProcessing (SpecWait)                        *)
(***************************************************************************)

\* Call e was answered with a getStatus response (no fault) carrying code c.
Answered(e, c) == e.err = NilError /\ e.resp.Success /\ e.resp.StatusCode = <<c>>

AnsweredTerminal(e) == Answered(e, "0") \/ Answered(e, "99")

WaitReturned == wpc = "done" /\ wRet # NoReturn

\* C1: when the queries were answered n times with "98" and then with "0" or
\* "99", the function has returned that last outcome, with a nil error, after
\* these n+1 queries and exactly n sleeps; and a terminal answer is never
\* followed by another query.
C1_TerminalAfterInProgress ==
    LET k == Len(qlog) IN
    /\ (/\ k >= 1
        /\ \A i \in 1..(k - 1) : Answered(qlog[i], "98")
        /\ AnsweredTerminal(qlog[k]))
       => /\ WaitReturned
          /\ wRet = Return(qlog[k].resp, NilError)
          /\ nSleeps = k - 1
          /\ nCalls = k
    /\ \A i \in 1..(k - 1) : ~AnsweredTerminal(qlog[i])

\* C1 witness: the answers "98", "98", "0": returned "0" after 3 queries and
\* 2 sleeps.
C1_Witness ==
    /\ Len(qlog) = 3
    /\ Answered(qlog[1], "98") /\ Answered(qlog[2], "98") /\ Answered(qlog[3], "0")
    /\ WaitReturned
    /\ wRet.result.StatusCode = <<"0">>
    /\ nSleeps = 2

\* C2 as stated: a query is followed by another one only when it was answered
\* with status code "98".
C2_OnlyInProgressRequeried ==
    \A i \in 1..(Len(qlog) - 1) :
        qlog[i].err = NilError /\ qlog[i].resp.StatusCode = <<"98">>

\* C2 amended: a query is followed by another one only when it returned no
\* error and an outcome with Success = true whose status code is neither "0"
\* nor "99" (that is "98", an unknown code, or no code at all); a fault, an
\* unrecognised response, "0" and "99" are returned without another query.
C2_OnlyUnprocessedRequeried ==
    /\ \A i \in 1..(Len(qlog) - 1) :
          /\ qlog[i].err = NilError
          /\ qlog[i].resp.Success
          /\ qlog[i].resp.StatusCode \notin {<<"0">>, <<"99">>}
    /\ (Len(qlog) >= 1 /\ qlog[Len(qlog)].err = NilError
          /\ (~qlog[Len(qlog)].resp.Success \/ AnsweredTerminal(qlog[Len(qlog)])))
       => /\ WaitReturned
          /\ wRet = Return(qlog[Len(qlog)].resp, NilError)

\* C2 witness: a status response with the unknown code "00" was followed by a
\* second query, whose answer, a fault, ended the loop.
C2_Witness ==
    /\ Len(qlog) = 2
    /\ Answered(qlog[1], "00")
    /\ qlog[2].err = NilError /\ ~qlog[2].resp.Success
    /\ WaitReturned

\* C3: an outcome with status code "98" is returned only when the time since
\* the start of the loop has reached maxWaitTime, with the timeout message.
C3_InProgressOnlyAtDeadline ==
    (WaitReturned /\ wRet.result # NilResponse /\ wRet.result.StatusCode = <<"98">>)
        => /\ now - startTime >= maxWaitTime
           /\ wRet.result.Message = MsgTimeout

\* C3 witness: "98" returned at the deadline after at least one sleep, the
\* loop having started at a clock reading other than zero.
C3_Witness ==
    /\ WaitReturned
    /\ wRet.result # NilResponse
    /\ wRet.result.StatusCode = <<"98">>
    /\ nSleeps >= 1
    /\ startTime > 0
    /\ maxWaitTime > 0

\* The loop ended at the deadline check: its last query was answered with an
\* outcome that is neither an error, nor a failure, nor processed.
EndedByDeadline ==
    /\ WaitReturned
    /\ Len(qlog) >= 1
    /\ qlog[Len(qlog)].err = NilError
    /\ qlog[Len(qlog)].resp.Success
    /\ ~AnsweredTerminal(qlog[Len(qlog)])

\* C4: when the deadline ends the loop, the function returns a nil error and
\* the outcome of its last query with only the message replaced by the
\* timeout message.
C4_TimeoutReturnsLastOutcome ==
    EndedByDeadline =>
        /\ wRet.err = NilError
        /\ wRet.result = [qlog[Len(qlog)].resp EXCEPT !.Message = MsgTimeout]
        /\ now - startTime >= maxWaitTime

\* C4 witness: two queries with different answers ("98", then the unknown
\* code "00"), the deadline reached after the second: the second is returned.
C4_Witness ==
    /\ EndedByDeadline
    /\ Len(qlog) = 2
    /\ Answered(qlog[1], "98")
    /\ Answered(qlog[2], "00")
    /\ wRet.result.StatusCode = <<"00">>
    /\ wRet.result.Message = MsgTimeout

\* C5: a query that returns an error (a transport failure, or the empty
\* ticket, for which no request is sent) is the last one: the function has
\* returned an error and no outcome, and has not slept since.  A fault is
\* the last one too, returned as an outcome with Success = false and a nil
\* error.
C5_ErrorAndFaultEndTheLoop ==
    LET k == Len(qlog) IN
    /\ \A i \in 1..k :
          qlog[i].err # NilError =>
              /\ i = k
              /\ WaitReturned
              /\ wRet.result = NilResponse
              /\ wRet.err = Wrap("error querying ticket", qlog[i].err)
              /\ nSleeps = k - 1
    /\ \A i \in 1..k :
          (qlog[i].err = NilError /\ HasFaultTag(qlog[i].resp.ResponseXML)) =>
              /\ i = k
              /\ WaitReturned
              /\ wRet = Return(qlog[i].resp, NilError)
              /\ wRet.result.Success = FALSE
              /\ nSleeps = k - 1
    /\ wTicket = "" => nCalls = 0

\* C5 witness: two queries answered "98", then a query that fails in
\* transport: an error and no outcome after exactly two sleeps.
C5_Witness ==
    /\ Len(qlog) = 3
    /\ Answered(qlog[1], "98") /\ Answered(qlog[2], "98")
    /\ qlog[3].err = NetError("send")
    /\ WaitReturned
    /\ wRet.result = NilResponse
    /\ wRet.err # NilError
    /\ nSleeps = 2

(***************************************************************************)
(* BatchQueryTickets                                                       *)
(***************************************************************************)

\* 100 * time.Millisecond.  The clock of the batch counts milliseconds.
BatchDelay == 100

RECURSIVE ListsOf(_)
ListsOf(n) ==
    IF n = 0 THEN { << >> }
    ELSE LET shorter == ListsOf(n - 1)
         IN shorter \cup { Append(l, t) : l \in shorter, t \in TicketIds }

\* Every list of at most MaxTickets ticket ids, the empty list and lists
\* with an empty or a repeated id included.
TicketLists == ListsOf(MaxTickets)

\* The response built for a ticket whose query returned an error.
ErrorResponse(tkt, err) ==
    [ Success             |-> FALSE,
      Message             |-> Wrap("Error querying ticket", err),
      Ticket              |-> tkt,
      StatusCode          |-> << >>,
      StatusDescription   |-> << >>,
      ResponseXML         |-> << >>,
      ApplicationResponse |-> NilBytes,
      Error               |-> err ]

\* Mutant of BatchAppend: a ticket whose query failed gets no entry.
BatchAppend_SkipFailed(resps, tkt, q) ==
    IF q.err # NilError THEN resps ELSE Append(resps, q.resp)

\* The responses slice after the query q of ticket tkt.
BatchAppend(resps, tkt, q) ==
    IF q.err # NilError
    THEN Append(resps, ErrorResponse(tkt, q.err))
    ELSE Append(resps, q.resp)

InitBatch ==
    /\ DecodeIdle
    /\ ClockInit
    /\ WaitIdle
    /\ ValidationIdle /\ FaultIdle /\ ParamIdle /\ SeriesIdle
    /\ FlowIdle
    /\ bpc = "start"
    /\ tickets \in TicketLists
    /\ bIdx = 0
    /\ responses = << >>
    /\ bRet = NoReturn

\* The entry of the function: an error for the empty list, else the loop.
BatchStart ==
    /\ bpc = "start"
    /\ IF Len(tickets) = 0
       THEN /\ bRet' = Return(<< >>, <<"no tickets provided">>)
            /\ bpc' = "done"
            /\ bIdx' = bIdx
       ELSE /\ bRet' = bRet
            /\ bpc' = "query"
            /\ bIdx' = 1
    /\ responses' = << >>
    /\ UNCHANGED <<decodeVars, clockVars, waitVars, libVars, tickets>>

\* The first half of one pass of the range loop: the query of the ticket at
\* bIdx, which takes d time units, and the append of its response.
BatchQuery ==
    /\ bpc = "query"
    /\ \E net \in NetOutcomes, body \in ServiceBodies, d \in QueryDurations :
          LET tkt == tickets[bIdx]
              q   == QueryVoidedDocumentsTicket(tkt, net, body)
          IN /\ now' = now + d
             /\ qlog' = Append(qlog, LogEntry(tkt, now, now + d, q))
             /\ nCalls' = IF SendsRequest(tkt, net) THEN nCalls + 1 ELSE nCalls
             /\ responses' = BatchAppend(responses, tkt, q)
    /\ bpc' = "sleep"
    /\ UNCHANGED <<decodeVars, waitVars, libVars, nSleeps, tickets, bIdx, bRet>>

\* The second half: the sleep that ends every pass, then the next ticket, or
\* the return of the responses after the last one.
BatchSleep ==
    /\ bpc = "sleep"
    /\ now' = AfterSleep(now, BatchDelay)
    /\ nSleeps' = nSleeps + 1
    /\ IF bIdx = Len(tickets)
       THEN /\ bpc' = "done"
            /\ bRet' = Return(responses, NilError)
            /\ bIdx' = bIdx
       ELSE /\ bpc' = "query"
            /\ bRet' = bRet
            /\ bIdx' = bIdx + 1
    /\ UNCHANGED <<decodeVars, waitVars, libVars, qlog, nCalls, tickets, responses>>

NextBatch == BatchStart \/ BatchQuery \/ BatchSleep

SpecBatch == InitBatch /\ [][NextBatch]_vars

(***************************************************************************)
(* Properties of BatchQueryTickets (SpecBatch)                             *)
(***************************************************************************)

BatchReturned == bpc = "done" /\ bRet # NoReturn

\* C6: for a non-empty list the function returns a nil error and one outcome
\* per ticket id, in the order of the list, the i-th carrying the i-th id.
\* The outcome of an id whose query failed has Success = false, the error
\* and an empty status code; the outcome of every other id is the response
\* its own query returned.
C6_OneOutcomePerTicketInOrder ==
    (BatchReturned /\ Len(tickets) >= 1) =>
        /\ bRet.err = NilError
        /\ Len(bRet.result) = Len(tickets)
        /\ Len(qlog) = Len(tickets)
        /\ \A i \in 1..Len(tickets) :
              /\ bRet.result[i].Ticket = tickets[i]
              /\ qlog[i].ticket = tickets[i]
              /\ qlog[i].err # NilError =>
                    /\ bRet.result[i].Success = FALSE
                    /\ bRet.result[i].Error = qlog[i].err
                    /\ bRet.result[i].StatusCode = << >>
              /\ qlog[i].err = NilError =>
                    /\ bRet.result[i] = qlog[i].resp
                    /\ bRet.result[i].Error = NilError

\* C6 witness: BatchQueryTickets(["A","B"]) where the query of "A" fails in
\* transport and "B" is answered "0": two outcomes, the first failed, the
\* second processed with its receipt.
C6_Witness ==
    /\ BatchReturned
    /\ tickets = <<"A", "B">>
    /\ qlog[1].err = NetError("send")
    /\ Answered(qlog[2], "0")
    /\ Len(bRet.result) = 2
    /\ bRet.result[1].Success = FALSE
    /\ bRet.result[2].StatusCode = <<"0">>
    /\ bRet.result[2].ApplicationResponse = Bytes(<<65, 66, 67>>)

\* C7: the tickets are queried one at a time, in list order, once each: the
\* i-th call is for the i-th id, and the call for the next id starts no
\* earlier than 100 time units after the call before it has ended.
C7_SequentialWithDelay ==
    /\ Len(qlog) <= Len(tickets)
    /\ \A i \in 1..Len(qlog) :
          /\ qlog[i].ticket = tickets[i]
          /\ qlog[i].start <= qlog[i].end
    /\ \A i \in 1..(Len(qlog) - 1) : qlog[i + 1].start >= qlog[i].end + 100
    /\ BatchReturned => Len(qlog) = Len(tickets)

\* C7 witness: a returned batch of two tickets whose first query took time.
C7_Witness ==
    /\ BatchReturned
    /\ Len(tickets) = 2
    /\ Len(qlog) = 2
    /\ qlog[1].end > qlog[1].start
    /\ qlog[2].start >= qlog[1].end + 100

(***************************************************************************)
(* ValidationClient.parseValidationResponse (validation.go)                *)
(***************************************************************************)

\* The eight phrases the classifier searches the status message for, in the
\* order of aux1 .. aux8.  A status message is a sequence of phrase tokens;
\* "no ha sido informada" holds "ha sido informada" as a substring.
Phrases ==
    << "no existe en los registros de SUNAT",
       "no ha sido informada",
       "BAJA",
       "RECHAZADO",
       "es un comprobante de pago válido",
       "ha sido informada",
       "rechazada",
       "AUTORIZADO (Con autorización de imprenta)" >>

\* aux1 .. aux8 of a message.
Signals(message) ==
    [aux1 |-> Contains(message, Phrases[1]),
     aux2 |-> Contains(message, Phrases[2]),
     aux3 |-> Contains(message, Phrases[3]),
     aux4 |-> Contains(message, Phrases[4]),
     aux5 |-> Contains(message, Phrases[5]),
     aux6 |-> Contains(message, Phrases[6]),
     aux7 |-> Contains(message, Phrases[7]),
     aux8 |-> Contains(message, Phrases[8])]

ValidSignal_Unguarded(a) == a.aux5 \/ a.aux6 \/ a.aux8

\* The condition of the last if: aux5 || (aux6 && !aux2) || aux8.
ValidSignal(a) == a.aux5 \/ (a.aux6 /\ ~a.aux2) \/ a.aux8

ClassifyState_VoidedOverRejected(a) ==
    LET s1 == "NO_INFORMADO"
        s2 == IF a.aux4 \/ a.aux7 THEN "RECHAZADO" ELSE s1
        s3 == IF a.aux3 THEN "ANULADO" ELSE s2
    IN IF ValidSignal(a) THEN "VALIDO" ELSE s3

ClassifyState_NotReportedWins(a) ==
    LET s1 == IF a.aux3 THEN "ANULADO" ELSE "NO_INFORMADO"
        s2 == IF a.aux4 \/ a.aux7 THEN "RECHAZADO" ELSE s1
        s3 == IF ValidSignal(a) THEN "VALIDO" ELSE s2
    IN IF a.aux1 \/ a.aux2 THEN "NO_INFORMADO" ELSE s3

\* The four ifs that assign state, each overwriting what the one before set.
ClassifyState(a) ==
    LET s0 == "NO_INFORMADO"
        s1 == IF a.aux1 \/ a.aux2 THEN "NO_INFORMADO" ELSE s0
        s2 == IF a.aux3 THEN "ANULADO" ELSE s1
        s3 == IF a.aux4 \/ a.aux7 THEN "RECHAZADO" ELSE s2
    IN IF ValidSignal(a) THEN "VALIDO" ELSE s3

Verdict_ValidUnlessRejected(state) ==
    CASE state = "VALIDO" ->
            [IsValid |-> TRUE, ErrorDetails |-> "Documento válido en SUNAT"]
      [] state = "ANULADO" ->
            [IsValid |-> TRUE, ErrorDetails |-> "Documento anulado o dado de baja"]
      [] state = "RECHAZADO" ->
            [IsValid |-> FALSE, ErrorDetails |-> "Documento rechazado por SUNAT"]
      [] state = "NO_INFORMADO" ->
            [IsValid |-> FALSE, ErrorDetails |-> "Documento no informado a SUNAT"]
      [] OTHER ->
            [IsValid |-> FALSE, ErrorDetails |-> "Estado no determinado"]

\* The switch on state: IsValid and ErrorDetails.
Verdict(state) ==
    CASE state = "VALIDO" ->
            [IsValid |-> TRUE, ErrorDetails |-> "Documento válido en SUNAT"]
      [] state = "ANULADO" ->
            [IsValid |-> FALSE, ErrorDetails |-> "Documento anulado o dado de baja"]
      [] state = "RECHAZADO" ->
            [IsValid |-> FALSE, ErrorDetails |-> "Documento rechazado por SUNAT"]
      [] state = "NO_INFORMADO" ->
            [IsValid |-> FALSE, ErrorDetails |-> "Documento no informado a SUNAT"]
      [] OTHER ->
            [IsValid |-> FALSE, ErrorDetails |-> "Estado no determinado"]

\* The text of a field when both of its markers were found, else the value
\* the result already holds.
FieldOr(s, open, close, default) ==
    LET f == ExtractField(s, open, close)
    IN IF f.found THEN f.text ELSE default

\* ValidationClient.parseValidationResponse.  The State the result is built
\* with ("UNKNOWN") is overwritten by the final result.State = state.
ValidationClient_parseValidationResponse(responseBody, httpStatusCode) ==
    LET StatusCode == FieldOr(responseBody, "<statusCode>", "</statusCode>",
                              <<"UNKNOWN">>)
        message == FieldOr(responseBody, "<statusMessage>", "</statusMessage>",
                           <<"Unable to parse response">>)
        state == ClassifyState(Signals(message))
    IN [Success       |-> httpStatusCode = 200,
        IsValid       |-> Verdict(state).IsValid,
        StatusCode    |-> StatusCode,
        StatusMessage |-> message,
        ErrorDetails  |-> Verdict(state).ErrorDetails,
        State         |-> state]

(***************************************************************************)
(* DocumentValidationClient.parseValidationResponse                        *)
(* (document_validation.go)                                                *)
(***************************************************************************)

\* Whether the body holds a Fault element, under either namespace prefix.
\* encoding/xml matches the element by its local name.
HasFaultElement(body) ==
    Contains(body, "<soap-env:Fault") \/ Contains(body, "<soap:Fault")

\* xml.Unmarshal into ValidationSOAPResponse.  ok says whether the decoder
\* accepts the body; the fields are the texts of the elements the struct
\* tags name, empty when the element is absent.
Unmarshal(body, ok) ==
    [err           |-> ~ok,
     FaultCode     |-> IF ok /\ HasFaultElement(body)
                       THEN FieldOr(body, "<faultcode>", "</faultcode>", << >>)
                       ELSE << >>,
     FaultString   |-> IF ok /\ HasFaultElement(body)
                       THEN FieldOr(body, "<faultstring>", "</faultstring>", << >>)
                       ELSE << >>,
     CDPValidated  |-> IF ok
                       THEN FieldOr(body, "<cdpvalidado>", "</cdpvalidado>", << >>)
                       ELSE << >>,
     StatusMessage |-> IF ok
                       THEN FieldOr(body, "<statusMessage>", "</statusMessage>", << >>)
                       ELSE << >>]

\* The zero ValidationResponse.
ZeroValidationResponse ==
    [Success |-> FALSE, IsValid |-> FALSE, StatusMessage |-> << >>,
     ErrorMessage |-> << >>]

\* DocumentValidationClient.parseValidationResponse; its error result is
\* always nil.
DocumentValidationClient_parseValidationResponse(responseData, httpCode, ok) ==
    LET response == ZeroValidationResponse
        soapResp == Unmarshal(responseData, ok)
    IN
    IF httpCode # 200 THEN
        [response EXCEPT !.ErrorMessage =
            <<"Se ha perdido la comunicación con la SUNAT">>]
    ELSE IF \/ Contains(responseData, "<soap-env:Fault")
            \/ Contains(responseData, "<faultstring>") THEN
        [response EXCEPT !.ErrorMessage =
            FieldOr(responseData, "<faultstring>", "</faultstring>", << >>)]
    ELSE IF soapResp.err THEN
        IF Contains(responseData, "<cdpvalidado>") THEN
            [response EXCEPT !.Success = TRUE, !.IsValid = TRUE,
                !.StatusMessage = FieldOr(responseData, "<statusMessage>",
                                          "</statusMessage>", << >>)]
        ELSE [response EXCEPT !.ErrorMessage = <<"Error parsing SUNAT response">>]
    ELSE IF soapResp.FaultCode # << >> THEN
        [response EXCEPT !.ErrorMessage = soapResp.FaultString]
    ELSE IF soapResp.CDPValidated # << >> THEN
        [response EXCEPT !.Success = TRUE, !.IsValid = TRUE,
            !.StatusMessage = soapResp.StatusMessage]
    ELSE [response EXCEPT !.ErrorMessage = <<"Documento no encontrado o inválido">>]

(***************************************************************************)
(* The validation parsers applied to every body                            *)
(***************************************************************************)

\* The status message made of the phrases whose positions are in S, in the
\* order of Phrases.
RECURSIVE MessageOfFrom(_, _)
MessageOfFrom(S, i) ==
    IF i > Len(Phrases) THEN << >>
    ELSE (IF i \in S THEN <<Phrases[i]>> ELSE << >>) \o MessageOfFrom(S, i + 1)

\* Every combination of the eight phrases.
Messages == { MessageOfFrom(S, 1) : S \in SUBSET (1..Len(Phrases)) }

\* What a body holds of a fault: nothing, a fault under either prefix with
\* or without its faultstring, or a bare faultstring.
FaultParts ==
    { << >>,
      <<"<soap-env:Fault", "<faultstring>", "Error interno", "</faultstring>">>,
      <<"<soap:Fault", "<faultcode>", "soap:Server", "</faultcode>",
        "<faultstring>", "Error interno", "</faultstring>">>,
      <<"<soap:Fault", "<faultcode>", "soap:Server", "</faultcode>">>,
      <<"<faultstring>", "Error interno", "</faultstring>">> }

StatusCodeParts == { << >>, <<"<statusCode>", "0001", "</statusCode>">> }

CdpParts == { << >>, <<"<cdpvalidado>", "true", "</cdpvalidado>">> }

\* The statusMessage element: absent, closed around every message, or left
\* open.
UnclosedMessagePart == <<"<statusMessage>", "es un comprobante de pago válido">>

MessageParts ==
    { << >>, UnclosedMessagePart }
        \cup { <<"<statusMessage>">> \o m \o <<"</statusMessage>">> : m \in Messages }

ValidationBodies ==
    { f \o c \o m \o v : f \in FaultParts, c \in StatusCodeParts,
                         m \in MessageParts, v \in CdpParts }

HttpCodes == {200, 500}

\* A body with an element left open is no XML document.
WellFormed(body) ==
    Contains(body, "<statusMessage>") => Contains(body, "</statusMessage>")

InitValidation ==
    /\ DecodeIdle
    /\ now = 0 /\ qlog = << >> /\ nCalls = 0 /\ nSleeps = 0
    /\ WaitIdle
    /\ BatchIdle
    /\ FaultIdle /\ ParamIdle /\ SeriesIdle
    /\ FlowIdle
    /\ vBody \in ValidationBodies
    /\ vHttp \in HttpCodes
    /\ vXmlOk \in (IF WellFormed(vBody) THEN BOOLEAN ELSE {FALSE})
    /\ vResult = NilResponse
    /\ dvResult = NilResponse

\* One call of ValidationClient.parseValidationResponse.
ParseValidation ==
    /\ vResult = NilResponse
    /\ vResult' = ValidationClient_parseValidationResponse(vBody, vHttp)
    /\ UNCHANGED <<decodeVars, clockVars, waitVars, batchVars, flowVars, faultVars,
                   paramVars, seriesVars, vBody, vHttp, vXmlOk, dvResult>>

\* One call of DocumentValidationClient.parseValidationResponse.
ParseDocumentValidation ==
    /\ dvResult = NilResponse
    /\ dvResult' =
         DocumentValidationClient_parseValidationResponse(vBody, vHttp, vXmlOk)
    /\ UNCHANGED <<decodeVars, clockVars, waitVars, batchVars, flowVars, faultVars,
                   paramVars, seriesVars, vBody, vHttp, vXmlOk, vResult>>

NextValidation == ParseValidation \/ ParseDocumentValidation

SpecValidation == InitValidation /\ [][NextValidation]_vars

(***************************************************************************)
(* Properties of the validation parsers                                    *)
(***************************************************************************)

\* ValidationClient.parseValidationResponse has returned.
VParsed == vResult # NilResponse

\* DocumentValidationClient.parseValidationResponse has returned.
DVParsed == dvResult # NilResponse

\* The message the classifier read holds the phrase.
Says(phrase) == Contains(vResult.StatusMessage, phrase)

\* The message holds a rejection marker.
SaysRejected == Says("RECHAZADO") \/ Says("rechazada")

\* The message holds a not-reported phrase.
SaysNotReported ==
    Says("no existe en los registros de SUNAT") \/ Says("no ha sido informada")

\* The message raises the valid signal.
SaysValid ==
    \/ Says("es un comprobante de pago válido")
    \/ Says("AUTORIZADO (Con autorización de imprenta)")
    \/ (Says("ha sido informada") /\ ~Says("no ha sido informada"))

\* C11: the state is VALIDO when the valid signal matches, otherwise
\* RECHAZADO when a rejection marker matches, otherwise ANULADO when "BAJA"
\* matches, otherwise NO_INFORMADO, also when no phrase matches at all.
C11_StatePrecedence ==
    VParsed =>
        vResult.State =
            IF SaysValid THEN "VALIDO"
            ELSE IF SaysRejected THEN "RECHAZADO"
            ELSE IF Says("BAJA") THEN "ANULADO"
            ELSE "NO_INFORMADO"

\* A message with both the voiding and a rejection marker and no valid
\* signal has been classified RECHAZADO.
C11_Witness ==
    /\ VParsed
    /\ Says("BAJA") /\ Says("rechazada") /\ ~SaysValid
    /\ vResult.State = "RECHAZADO"

\* C12 as stated: every message with a not-reported phrase and one of the
\* three valid phrasings is classified VALIDO with IsValid = TRUE.
C12_AnyValidPhraseWins ==
    (/\ VParsed
     /\ SaysNotReported
     /\ \/ Says("es un comprobante de pago válido")
        \/ Says("ha sido informada")
        \/ Says("AUTORIZADO (Con autorización de imprenta)"))
        => (vResult.State = "VALIDO" /\ vResult.IsValid)

\* C12: every message with a not-reported phrase that also raises the valid
\* signal ("es un comprobante de pago válido", "AUTORIZADO (Con autorización
\* de imprenta)", or "ha sido informada" outside "no ha sido informada") is
\* classified VALIDO with IsValid = TRUE.
C12_ValidSignalWins ==
    (VParsed /\ SaysNotReported /\ SaysValid)
        => (vResult.State = "VALIDO" /\ vResult.IsValid)

\* A message saying both "no ha sido informada" and "es un comprobante de
\* pago válido" has been classified VALIDO.
C12_Witness ==
    /\ VParsed
    /\ Says("no ha sido informada") /\ Says("es un comprobante de pago válido")
    /\ vResult.State = "VALIDO" /\ vResult.IsValid

\* C13 as stated: a message flagged not-on-file by either phrase, whose only
\* valid-looking phrase is "ha sido informada", is not classified VALIDO.
C13_NotOnFileBlocksReported ==
    (/\ VParsed
     /\ SaysNotReported
     /\ ~Says("es un comprobante de pago válido")
     /\ ~Says("AUTORIZADO (Con autorización de imprenta)"))
        => vResult.State # "VALIDO"

\* C13: "ha sido informada" raises the valid signal exactly when the message
\* does not hold "no ha sido informada": a message holding "no ha sido
\* informada" and neither other valid phrasing is not VALIDO, and a message
\* holding "ha sido informada" without "no ha sido informada" is VALIDO,
\* "no existe en los registros de SUNAT" notwithstanding.
C13_OnlyNegatedPhraseBlocksReported ==
    VParsed =>
        /\ (/\ Says("no ha sido informada")
            /\ ~Says("es un comprobante de pago válido")
            /\ ~Says("AUTORIZADO (Con autorización de imprenta)"))
              => vResult.State # "VALIDO"
        /\ (Says("ha sido informada") /\ ~Says("no ha sido informada"))
              => vResult.State = "VALIDO"

\* A message whose only valid-looking phrase is the "ha sido informada"
\* inside "no ha sido informada" has been classified NO_INFORMADO.
C13_Witness ==
    /\ VParsed
    /\ Says("no ha sido informada") /\ Says("ha sido informada")
    /\ ~Says("es un comprobante de pago válido")
    /\ ~Says("AUTORIZADO (Con autorización de imprenta)")
    /\ ~SaysRejected /\ ~Says("BAJA")
    /\ vResult.State = "NO_INFORMADO"

\* The validity states of the specification.
ValidityStates == {"VALIDO", "ANULADO", "RECHAZADO", "NO_INFORMADO", "UNKNOWN"}

\* C14: every result of the parser has State in the closed set and IsValid
\* exactly when State is VALIDO, whatever the body and the HTTP status code.
C14_StateSetAndIsValid ==
    VParsed =>
        /\ vResult.State \in ValidityStates
        /\ vResult.IsValid <=> (vResult.State = "VALIDO")

\* A body answered with HTTP 500 whose message is valid has been parsed:
\* IsValid is TRUE although Success is FALSE.
C14_Witness ==
    /\ VParsed
    /\ vHttp = 500
    /\ vResult.State = "VALIDO" /\ vResult.IsValid /\ ~vResult.Success

\* The body holds a fault shape: a Fault element or a faultstring.
HasFaultShape(body) == HasFaultElement(body) \/ Contains(body, "<faultstring>")

\* The body holds the success shape: a statusMessage element.
HasSuccessShape(body) ==
    ExtractField(body, "<statusMessage>", "</statusMessage>").found

\* C15 as stated: a body of neither the success nor the fault shape is
\* reported with State UNKNOWN, and UNKNOWN arises for no other body.
C15_UnrecognisedIsUnknown ==
    VParsed =>
        (vResult.State = "UNKNOWN"
            <=> (~HasSuccessShape(vBody) /\ ~HasFaultShape(vBody)))

\* The fault string of the body, when it holds one.
FaultText(body) == ExtractField(body, "<faultstring>", "</faultstring>")

\* C16 as stated: for a body holding a SOAP fault element both clients
\* report Success = FALSE and carry the fault message, whatever the HTTP
\* status code.
C16_FaultIsReported ==
    (VParsed /\ DVParsed /\ HasFaultElement(vBody)) =>
        /\ ~vResult.Success
        /\ ~dvResult.Success
        /\ FaultText(vBody).found =>
            /\ vResult.StatusMessage = FaultText(vBody).text
            /\ dvResult.ErrorMessage = FaultText(vBody).text

(***************************************************************************)
(* The fault handling of the three SUNATClient parsers                     *)
(* (sunat.go, examples/integrated_example.go)                              *)
(***************************************************************************)

\* The longest fault string of a body, in tokens.
MaxFaultText == 2

\* The fault branch of parseResponse and parseVoidedDocumentsResponse: the
\* fault string with "&#243;" replaced, and nothing else.
ParseFaultOneEntity(responseStr, response) ==
    LET f == ExtractField(responseStr, "<faultstring>", "</faultstring>") IN
    [response EXCEPT
        !.Success = FALSE,
        !.Message = IF f.found THEN ReplaceAll(f.text, "&#243;", "ó") ELSE @]

\* The zero SUNATResponse with ResponseXML set.
NewSUNATResponse(responseData) ==
    [ Success             |-> FALSE,
      Message             |-> << >>,
      ResponseXML         |-> responseData,
      ApplicationResponse |-> NilBytes,
      Error               |-> << >> ]

\* SUNATClient.parseResponse (sendBill); its error result is always nil.
parseResponse(responseData) ==
    LET response == NewSUNATResponse(responseData)
        a == ExtractField(responseData, "<applicationResponse>",
                          "</applicationResponse>")
    IN
    IF Contains(responseData, "<soap-env:Fault") THEN
        ParseFaultOneEntity(responseData, response)
    ELSE IF Contains(responseData, "<br:sendBillResponse") THEN
        [response EXCEPT
            !.Success = TRUE,
            !.Message = <<"Documento enviado exitosamente">>,
            !.ApplicationResponse =
                IF a.found /\ ~DecodeString(a.text).err
                THEN Bytes(DecodeString(a.text).bytes) ELSE @]
    ELSE [response EXCEPT !.Message = <<"Respuesta no reconocida de SUNAT">>]

\* The zero VoidedDocumentsResponse with ResponseXML set.
NewVoidedDocumentsResponse(responseData) ==
    [ Success     |-> FALSE,
      Message     |-> << >>,
      Ticket      |-> << >>,
      ResponseXML |-> responseData ]

\* SUNATClient.parseVoidedDocumentsResponse (sendSummary); its error result
\* is always nil.
parseVoidedDocumentsResponse(responseData) ==
    LET response == NewVoidedDocumentsResponse(responseData)
        t == ExtractField(responseData, "<ticket>", "</ticket>")
    IN
    IF Contains(responseData, "<soap-env:Fault") THEN
        ParseFaultOneEntity(responseData, response)
    ELSE IF Contains(responseData, "<br:sendSummaryResponse") THEN
        [response EXCEPT
            !.Success = TRUE,
            !.Message = <<"Comunicación de baja enviada exitosamente">>,
            !.Ticket = IF t.found THEN t.text ELSE @]
    ELSE [response EXCEPT !.Message = <<"Respuesta no reconocida de SUNAT">>]

\* The tokens of a fault string: plain text and the four entities.
FaultTokens == {"Error", "&#243;", "&lt;", "&gt;", "&amp;"}

RECURSIVE FaultTexts(_)
FaultTexts(n) ==
    IF n = 0 THEN { << >> }
    ELSE FaultTexts(n - 1)
            \cup { Append(t, x) : t \in FaultTexts(n - 1), x \in FaultTokens }

\* The faultstring element: absent, closed around every text, or left open.
FaultStringParts ==
    { << >>, <<"<faultstring>", "Error">> }
        \cup { <<"<faultstring>">> \o t \o <<"</faultstring>">> :
                    t \in FaultTexts(MaxFaultText) }

\* The opening tag of the fault element: absent or in either spelling.
FaultOpenings == { << >>, <<"<soap-env:Fault">>, <<"<soap:Fault">> }

\* What a body holds of a success response of each of the three operations.
SuccessParts ==
    { << >>,
      <<"<br:sendBillResponse", "<applicationResponse>", "QUJD",
        "</applicationResponse>">>,
      <<"<br:sendSummaryResponse", "<ticket>", "A", "</ticket>">>,
      <<"<br:getStatusResponse", "<statusCode>", "0", "</statusCode>">> }

FaultBodies ==
    { o \o f \o s : o \in FaultOpenings, f \in FaultStringParts,
                    s \in SuccessParts }

InitFault ==
    /\ DecodeIdle
    /\ now = 0 /\ qlog = << >> /\ nCalls = 0 /\ nSleeps = 0
    /\ WaitIdle
    /\ BatchIdle
    /\ ValidationIdle /\ ParamIdle /\ SeriesIdle
    /\ FlowIdle
    /\ fBody \in FaultBodies
    /\ fBill = NilResponse
    /\ fVoided = NilResponse
    /\ fStatus = NilResponse

\* One call of parseResponse.
ParseBill ==
    /\ fBill = NilResponse
    /\ fBill' = parseResponse(fBody)
    /\ UNCHANGED <<decodeVars, clockVars, waitVars, batchVars, flowVars, validationVars,
                   paramVars, seriesVars, fBody, fVoided, fStatus>>

\* One call of parseVoidedDocumentsResponse.
ParseVoided ==
    /\ fVoided = NilResponse
    /\ fVoided' = parseVoidedDocumentsResponse(fBody)
    /\ UNCHANGED <<decodeVars, clockVars, waitVars, batchVars, flowVars, validationVars,
                   paramVars, seriesVars, fBody, fBill, fStatus>>

\* One call of parseTicketStatusResponse.
ParseTicketStatus ==
    /\ fStatus = NilResponse
    /\ fStatus' = parseTicketStatusResponse(fBody, "A")
    /\ UNCHANGED <<decodeVars, clockVars, waitVars, batchVars, flowVars, validationVars,
                   paramVars, seriesVars, fBody, fBill, fVoided>>

NextFault == ParseBill \/ ParseVoided \/ ParseTicketStatus

SpecFault == InitFault /\ [][NextFault]_vars

\* The three parsers have returned.
FParsed == fBill # NilResponse /\ fVoided # NilResponse /\ fStatus # NilResponse

\* C17 as stated: for a body holding a fault opening tag in either spelling
\* each of the three parsers reports Success = FALSE, and each returns the
\* same message: the fault string with the four entities decoded.
C17_FaultsHandledAlike ==
    (FParsed /\ IsFaultBody(fBody)) =>
        /\ ~fBill.Success /\ ~fVoided.Success /\ ~fStatus.Success
        /\ fBill.Message = fStatus.Message
        /\ fVoided.Message = fStatus.Message
        /\ FaultText(fBody).found =>
                fStatus.Message = DecodeEntities(FaultText(fBody).text)

(***************************************************************************)
(* ValidationClient.ValidateDocument: parameter checks and date format     *)
(* (validation.go)                                                         *)
(***************************************************************************)

\* A date string is a sequence of characters.
Digits == <<"0", "1", "2", "3", "4", "5", "6", "7", "8", "9">>

\* The value of a decimal digit, -1 for any other character.
DigitValue(c) ==
    IF \E i \in 1..10 : Digits[i] = c
    THEN (CHOOSE i \in 1..10 : Digits[i] = c) - 1
    ELSE -1

IsDigit(c) == DigitValue(c) # -1

\* The number a sequence of digits spells.
RECURSIVE Atoi(_)
Atoi(s) ==
    IF s = << >> THEN 0
    ELSE Atoi(SubSeq(s, 1, Len(s) - 1)) * 10 + DigitValue(s[Len(s)])

\* n in decimal, zero-padded to at least width digits (%0<width>d for n >= 0).
RECURSIVE Itoa(_, _)
Itoa(n, width) ==
    IF n < 10 /\ width <= 1 THEN <<Digits[n + 1]>>
    ELSE Append(Itoa(n \div 10, width - 1), Digits[(n % 10) + 1])

IsLeap(year) == (year % 4 = 0 /\ year % 100 # 0) \/ year % 400 = 0

DaysIn_NoLeapYear(month, year) ==
    CASE month \in {4, 6, 9, 11} -> 30
      [] month = 2               -> 28
      [] OTHER                   -> 31

\* The days of a month of a year.
DaysIn(month, year) ==
    CASE month \in {4, 6, 9, 11} -> 30
      [] month = 2               -> IF IsLeap(year) THEN 29 ELSE 28
      [] OTHER                   -> 31

\* time.Parse("2006-01-02", value): four digits, "-", two digits, "-", two
\* digits and nothing after them; the month in 1..12 and the day in the
\* month, else an error.
timeParse(value) ==
    LET shaped == /\ Len(value) = 10
                  /\ \A i \in {1, 2, 3, 4, 6, 7, 9, 10} : IsDigit(value[i])
                  /\ value[5] = "-" /\ value[8] = "-"
        year  == Atoi(SubSeq(value, 1, 4))
        month == Atoi(SubSeq(value, 6, 7))
        day   == Atoi(SubSeq(value, 9, 10))
    IN IF shaped /\ month \in 1..12 /\ day \in 1..DaysIn(month, year)
       THEN [err |-> FALSE, year |-> year, month |-> month, day |-> day]
       ELSE [err |-> TRUE, year |-> 0, month |-> 0, day |-> 0]

\* Time.Format("02/01/2006")
timeFormat(t) ==
    Itoa(t.day, 2) \o <<"/">> \o Itoa(t.month, 2) \o <<"/">> \o Itoa(t.year, 4)

\* formatDateForSUNAT
formatDateForSUNAT(dateStr) ==
    IF dateStr = << >> THEN
        [text |-> << >>, err |-> <<"date cannot be empty">>]
    ELSE IF timeParse(dateStr).err THEN
        [text |-> << >>, err |-> Wrap("cannot parse date", <<"parsing time">>)]
    ELSE [text |-> timeFormat(timeParse(dateStr)), err |-> NilError]

\* A nil *formattedValidationParams.
NilParams == [isNilParams |-> TRUE]

formatValidationParams_DateFirst(params) ==
    LET d == formatDateForSUNAT(params.IssueDate) IN
    IF d.err # NilError THEN
        [params |-> NilParams, err |-> Wrap("invalid issue date format", d.err)]
    ELSE IF params.IssuerRUC = "" THEN
        [params |-> NilParams, err |-> <<"issuer RUC cannot be empty">>]
    ELSE IF params.SeriesNumber = "" THEN
        [params |-> NilParams, err |-> <<"series number cannot be empty">>]
    ELSE IF params.DocumentNumber = "" THEN
        [params |-> NilParams, err |-> <<"document number cannot be empty">>]
    ELSE [params |-> [RucEmisor    |-> params.IssuerRUC,
                      SerieCDP     |-> params.SeriesNumber,
                      NumeroCDP    |-> params.DocumentNumber,
                      FechaEmision |-> d.text],
          err |-> NilError]

\* formatValidationParams: the three required fields in order, then the
\* date.  Of the formatted parameters the model keeps the four that come
\* from the checked fields.
formatValidationParams(params) ==
    LET d == formatDateForSUNAT(params.IssueDate) IN
    IF params.IssuerRUC = "" THEN
        [params |-> NilParams, err |-> <<"issuer RUC cannot be empty">>]
    ELSE IF params.SeriesNumber = "" THEN
        [params |-> NilParams, err |-> <<"series number cannot be empty">>]
    ELSE IF params.DocumentNumber = "" THEN
        [params |-> NilParams, err |-> <<"document number cannot be empty">>]
    ELSE IF d.err # NilError THEN
        [params |-> NilParams, err |-> Wrap("invalid issue date format", d.err)]
    ELSE [params |-> [RucEmisor    |-> params.IssuerRUC,
                      SerieCDP     |-> params.SeriesNumber,
                      NumeroCDP    |-> params.DocumentNumber,
                      FechaEmision |-> d.text],
          err |-> NilError]

\* The error of executeValidationRequest for each failure of the network.
ValidationNetError(net) ==
    CASE net = "create" -> Wrap("error creating SOAP request", <<"net">>)
      [] net = "send"   -> Wrap("error executing SOAP request", <<"net">>)
      [] net = "read"   -> Wrap("error reading SOAP response", <<"net">>)
      [] OTHER          -> NilError

\* The response the service gives when the network does not fail.
ValidationReply ==
    [body |-> <<"<statusCode>", "0001", "</statusCode>", "<statusMessage>",
                "es un comprobante de pago válido", "</statusMessage>">>,
     code |-> 200]

\* executeValidationRequest: the parsed response with ResponseXML set, or
\* the error of the step that failed.
executeValidationRequest(net) ==
    IF net # "ok" THEN [result |-> NilResponse, err |-> ValidationNetError(net)]
    ELSE [result |->
            [ResponseXML |-> ValidationReply.body] @@
                ValidationClient_parseValidationResponse(ValidationReply.body,
                                                         ValidationReply.code),
          err |-> NilError]

\* ValidationClient.ValidateDocument: what it returns, and the requests it
\* hands to httpClient.Do (none when http.NewRequest fails).
ValidateDocument(params, net) ==
    LET f == formatValidationParams(params)
        x == executeValidationRequest(net)
    IN
    IF f.err # NilError THEN
        [ret  |-> Return(NilResponse, Wrap("error formatting parameters", f.err)),
         sent |-> << >>]
    ELSE IF x.err # NilError THEN
        [ret  |-> Return(NilResponse, Wrap("validation request failed", x.err)),
         sent |-> IF net = "create" THEN << >> ELSE <<f.params>>]
    ELSE [ret |-> Return(x.result, NilError), sent |-> <<f.params>>]

(***************************************************************************)
(* ValidateDocument called with every combination of parameters            *)
(***************************************************************************)

YearTexts ==
    { <<"2", "0", "2", "4">>, <<"2", "0", "2", "5">>, <<"1", "9", "0", "0">>,
      <<"2", "0", "0", "0">>, <<"0", "0", "0", "1">>, <<"2", "5">>,
      <<"2", "0", "2", "x">> }

MonthTexts ==
    { <<"0", "1">>, <<"0", "2">>, <<"0", "4">>, <<"1", "2">>, <<"1", "3">>,
      <<"0", "0">>, <<"2">> }

DayTexts ==
    { <<"0", "1">>, <<"1", "8">>, <<"2", "8">>, <<"2", "9">>, <<"3", "0">>,
      <<"3", "1">>, <<"3", "2">>, <<"0", "0">>, <<"1">> }

Separators == {"-", "/"}

\* The issue dates: the empty string, year, month and day joined by a
\* separator, a date followed by more text, and a date in the order of the
\* output.
IssueDates ==
    { << >>,
      <<"2", "0", "2", "5", "-", "0", "1", "-", "1", "8", "T">>,
      <<"1", "8", "/", "0", "1", "/", "2", "0", "2", "5">>,
      <<"1", "8", "-", "0", "1", "-", "2", "0", "2", "5">> }
        \cup { y \o <<s>> \o m \o <<s>> \o d :
                  y \in YearTexts, s \in Separators, m \in MonthTexts,
                  d \in DayTexts }

ParamSets ==
    [IssuerRUC      : {"", "20123456789"},
     SeriesNumber   : {"", "F001"},
     DocumentNumber : {"", "00000001"},
     IssueDate      : IssueDates]

InitParams ==
    /\ DecodeIdle
    /\ now = 0 /\ qlog = << >> /\ nCalls = 0 /\ nSleeps = 0
    /\ WaitIdle
    /\ BatchIdle
    /\ ValidationIdle /\ FaultIdle /\ SeriesIdle
    /\ FlowIdle
    /\ pParams \in ParamSets
    /\ pNet \in NetOutcomes
    /\ pSent = << >>
    /\ pRet = NoReturn

\* One call of ValidateDocument.
CallValidateDocument ==
    /\ pRet = NoReturn
    /\ pRet' = ValidateDocument(pParams, pNet).ret
    /\ pSent' = pSent \o ValidateDocument(pParams, pNet).sent
    /\ UNCHANGED <<decodeVars, clockVars, waitVars, batchVars, flowVars, validationVars,
                   faultVars, seriesVars, pParams, pNet>>

NextParams == CallValidateDocument

SpecParams == InitParams /\ [][NextParams]_vars

(***************************************************************************)
(* Properties of ValidateDocument                                          *)
(***************************************************************************)

\* ValidateDocument has returned.
PReturned == pRet # NoReturn

\* The message of the first required field that is empty, in the order
\* issuer RUC, series, document number; empty when none is.
FirstMissing ==
    IF pParams.IssuerRUC = "" THEN <<"issuer RUC cannot be empty">>
    ELSE IF pParams.SeriesNumber = "" THEN <<"series number cannot be empty">>
    ELSE IF pParams.DocumentNumber = "" THEN <<"document number cannot be empty">>
    ELSE << >>

\* C18: when a required field is empty, ValidateDocument returns no result
\* and the error of the first empty field in the order issuer RUC, series,
\* document number, whatever the date, and sends no request.
C18_FirstMissingFieldNamed ==
    (PReturned /\ FirstMissing # << >>) =>
        /\ pRet.result = NilResponse
        /\ pRet.err = Wrap("error formatting parameters", FirstMissing)
        /\ pSent = << >>

\* Series and document number are empty and the date is malformed: the
\* error names the series.
C18_Witness ==
    /\ PReturned
    /\ pParams.IssuerRUC # "" /\ pParams.SeriesNumber = ""
    /\ pParams.DocumentNumber = ""
    /\ pParams.IssueDate = <<"2", "0", "2", "5", "/", "1", "3", "/", "3", "2">>
    /\ pRet.err = <<"error formatting parameters", "series number cannot be empty">>
    /\ pSent = << >>

\* The lengths of the months of a year that is not a leap year.
MonthLengths == <<31, 28, 31, 30, 31, 30, 31, 31, 30, 31, 30, 31>>

\* s is a valid calendar date written YYYY-MM-DD.
IsIsoDate(s) ==
    /\ Len(s) = 10
    /\ s[5] = "-" /\ s[8] = "-"
    /\ \A i \in (1..10) \ {5, 8} : s[i] \in {Digits[k] : k \in 1..10}
    /\ LET y == Atoi(SubSeq(s, 1, 4))
           m == Atoi(SubSeq(s, 6, 7))
           d == Atoi(SubSeq(s, 9, 10))
       IN /\ m >= 1 /\ m <= 12
          /\ d >= 1
          /\ \/ d <= MonthLengths[m]
             \/ m = 2 /\ d = 29 /\ y % 4 = 0 /\ (y % 100 # 0 \/ y % 400 = 0)

\* The characters of a YYYY-MM-DD date in the order DD/MM/YYYY.
Rearranged(s) ==
    <<s[9], s[10], "/", s[6], s[7], "/", s[1], s[2], s[3], s[4]>>

\* C19: the formatter turns every valid calendar date YYYY-MM-DD into
\* DD/MM/YYYY with the same day, month and year and fails for every other
\* input, the empty string included; ValidateDocument then returns the
\* error and no result and sends no request, and a request that is sent
\* carries the formatted date.
C19_DateFormat ==
    LET s == pParams.IssueDate
        r == formatDateForSUNAT(s)
    IN /\ IsIsoDate(s) => (r.err = NilError /\ r.text = Rearranged(s))
       /\ ~IsIsoDate(s) => r.err # NilError
       /\ (PReturned /\ ~IsIsoDate(s)) =>
            /\ pRet.result = NilResponse
            /\ pRet.err # NilError
            /\ pSent = << >>
       /\ (PReturned /\ pSent # << >>) =>
            (IsIsoDate(s) /\ pSent[1].FechaEmision = Rearranged(s))

\* The request for a document issued on 29 February of a leap year has been
\* sent with the date 29/02/2024.
C19_Witness ==
    /\ PReturned
    /\ pParams.IssueDate = <<"2", "0", "2", "4", "-", "0", "2", "-", "2", "9">>
    /\ Len(pSent) = 1
    /\ pSent[1].FechaEmision = <<"2", "9", "/", "0", "2", "/", "2", "0", "2", "4">>
    /\ pRet.err = NilError

(***************************************************************************)
(* GenerateVoidedDocumentsSeries (examples/integrated_example.go)          *)
(***************************************************************************)

\* The largest sequential argument of GenerateVoidedDocumentsSeries.
MaxSequential == 1000

\* fmt's %03d: at least three characters, the sign counted among them.
Sprintf03d(n) ==
    IF n < 0 THEN <<"-">> \o Itoa(-n, 2) ELSE Itoa(n, 3)

\* Time.Format("20060102")
timeFormatCompact(t) == Itoa(t.year, 4) \o Itoa(t.month, 2) \o Itoa(t.day, 2)

\* GenerateVoidedDocumentsSeries: Sprintf("RA-%s-%03d", ...)
GenerateVoidedDocumentsSeries(referenceDate, sequential) ==
    <<"R", "A", "-">> \o timeFormatCompact(referenceDate) \o <<"-">>
        \o Sprintf03d(sequential)

\* The reference dates: days of a leap year and of a common year.
ReferenceDates ==
    { [year |-> y, month |-> m, day |-> d] :
        y \in {2024, 2025}, m \in {1, 2, 12}, d \in {1, 18, 28} }
        \cup { [year |-> 2024, month |-> 2, day |-> 29] }

\* The sequence numbers: an int, negative ones included.
Sequentials == (-1)..MaxSequential

InitSeries ==
    /\ DecodeIdle
    /\ now = 0 /\ qlog = << >> /\ nCalls = 0 /\ nSleeps = 0
    /\ WaitIdle
    /\ BatchIdle
    /\ ValidationIdle /\ FaultIdle /\ ParamIdle
    /\ FlowIdle
    /\ sDate \in ReferenceDates
    /\ sSeq \in Sequentials
    /\ sRet = NoReturn

\* One call of GenerateVoidedDocumentsSeries.
CallGenerateSeries ==
    /\ sRet = NoReturn
    /\ sRet' = Return(GenerateVoidedDocumentsSeries(sDate, sSeq), NilError)
    /\ UNCHANGED <<decodeVars, clockVars, waitVars, batchVars, flowVars, validationVars,
                   faultVars, paramVars, sDate, sSeq>>

NextSeries == CallGenerateSeries

SpecSeries == InitSeries /\ [][NextSeries]_vars

\* GenerateVoidedDocumentsSeries has returned.
SReturned == sRet # NoReturn

\* C20 as stated: for every reference date and every sequence number the
\* series is "RA-", the date as YYYYMMDD, "-", and exactly three digits
\* that spell the sequence number.
C20_ThreeDigitSequence ==
    SReturned =>
        LET s == sRet.result IN
        /\ Len(s) = 15
        /\ SubSeq(s, 1, 3) = <<"R", "A", "-">>
        /\ \A i \in 4..11 : IsDigit(s[i])
        /\ Atoi(SubSeq(s, 4, 7)) = sDate.year
        /\ Atoi(SubSeq(s, 8, 9)) = sDate.month
        /\ Atoi(SubSeq(s, 10, 11)) = sDate.day
        /\ s[12] = "-"
        /\ \A i \in 13..15 : IsDigit(s[i])
        /\ Atoi(SubSeq(s, 13, 15)) = sSeq

(***************************************************************************)
(* utils: the format checks of a voided-documents request                  *)
(* (utils/validation.go)                                                   *)
(***************************************************************************)

\* The longest Documents list of a request.
MaxDocuments == 2

\* The factors of the RUC checksum.
RucFactors == <<5, 4, 3, 2, 7, 6, 5, 4, 3, 2>>

RECURSIVE RucSum(_, _)
RucSum(ruc, i) ==
    IF i = 0 THEN 0
    ELSE RucSum(ruc, i - 1) + DigitValue(ruc[i]) * RucFactors[i]

\* The check digit ValidateRUC computes from the first ten digits.
CheckDigit(ruc) ==
    LET checkDigit == 11 - (RucSum(ruc, 10) % 11)
    IN IF checkDigit = 10 THEN 0
       ELSE IF checkDigit = 11 THEN 1
       ELSE checkDigit

\* utils.ValidateRUC
ValidateRUC(ruc) ==
    /\ Len(ruc) = 11
    /\ \A i \in 1..11 : IsDigit(ruc[i])
    /\ CheckDigit(ruc) = DigitValue(ruc[11])

UpperLetters ==
    {"A", "B", "C", "D", "E", "F", "G", "H", "I", "J", "K", "L", "M",
     "N", "O", "P", "Q", "R", "S", "T", "U", "V", "W", "X", "Y", "Z"}

\* utils.ValidateDocumentSeries: three or four characters matching
\* ^[A-Z]{1,2}\d{2,3}$
ValidateDocumentSeries(series) ==
    /\ Len(series) >= 3 /\ Len(series) <= 4
    /\ \E k \in 1..2 :
        /\ Len(series) - k \in 2..3
        /\ \A i \in 1..k : series[i] \in UpperLetters
        /\ \A i \in (k + 1)..Len(series) : IsDigit(series[i])

\* utils.ValidateDocumentNumber: one to eight digits.
ValidateDocumentNumber(number) ==
    /\ Len(number) # 0 /\ Len(number) <= 8
    /\ \A i \in 1..Len(number) : IsDigit(number[i])

\* utils.ValidateDocumentType
ValidateDocumentType(docType) ==
    docType \in {"01", "03", "07", "08", "09", "31", "04"}

(***************************************************************************)
(* VoidedDocumentsRequest.Validate, GenerateVoidedDocumentsXML,            *)
(* SendVoidedDocuments, GetVoidedDocumentsStatus                           *)
(* (examples/integrated_example.go)                                        *)
(***************************************************************************)

\* VoidedDocument.Validate: NilError, or the error of the first check that
\* fails.
VoidedDocument_Validate(doc) ==
    IF doc.DocumentTypeCode = "" THEN <<"document type code is required">>
    ELSE IF ~ValidateDocumentType(doc.DocumentTypeCode) THEN
        <<"invalid document type code">>
    ELSE IF doc.DocumentSeries = << >> THEN <<"document series is required">>
    ELSE IF ~ValidateDocumentSeries(doc.DocumentSeries) THEN
        <<"invalid document series format">>
    ELSE IF doc.DocumentNumber = << >> THEN <<"document number is required">>
    ELSE IF ~ValidateDocumentNumber(doc.DocumentNumber) THEN
        <<"invalid document number format">>
    ELSE IF doc.VoidedReason = "" THEN <<"voided reason is required">>
    ELSE NilError

ValidateDocumentsFrom_FirstOnly(docs, i) ==
    IF i > Len(docs) \/ i > 1 THEN NilError
    ELSE IF VoidedDocument_Validate(docs[i]) # NilError THEN
        Wrap("document", Wrap(Digits[i + 1], VoidedDocument_Validate(docs[i])))
    ELSE NilError

\* The range loop over the documents from position i on: the error of the
\* first document that fails, wrapped with its 1-based position.
RECURSIVE ValidateDocumentsFrom(_, _)
ValidateDocumentsFrom(docs, i) ==
    IF i > Len(docs) THEN NilError
    ELSE IF VoidedDocument_Validate(docs[i]) # NilError THEN
        Wrap("document", Wrap(Digits[i + 1], VoidedDocument_Validate(docs[i])))
    ELSE ValidateDocumentsFrom(docs, i + 1)

\* VoidedDocumentsRequest.Validate
Validate(req) ==
    IF req.RUC = << >> THEN <<"RUC is required">>
    ELSE IF ~ValidateRUC(req.RUC) THEN <<"invalid RUC format">>
    ELSE IF req.CompanyName = "" THEN <<"company name is required">>
    ELSE IF req.SeriesNumber = << >> THEN <<"series number is required">>
    ELSE IF Len(req.Documents) = 0 THEN <<"at least one document is required">>
    ELSE ValidateDocumentsFrom(req.Documents, 1)

\* The empty ExtensionContent element as GenerateVoidedDocumentsXML writes
\* it: the two tags separated by a line break.
GeneratedExtensionContent == "<ext:ExtensionContent>\n</ext:ExtensionContent>"

\* A nil []byte document.
NilDocument == [isNilDocument |-> TRUE]

\* GenerateVoidedDocumentsXML.  A document is kept as its root element,
\* whether it declares xmlns:ds, the text of its ExtensionContent element,
\* and the values written into it (the escaping of the names and reasons
\* and the issue date are left out).
GenerateVoidedDocumentsXML(request) ==
    IF Len(request.Documents) = 0 THEN
        [xml |-> NilDocument, err |-> <<"no documents to void">>]
    ELSE [xml |-> [root             |-> "VoidedDocuments",
                   ds               |-> TRUE,
                   ExtensionContent |-> GeneratedExtensionContent,
                   ID               |-> request.SeriesNumber,
                   ReferenceDate    |-> request.ReferenceDate,
                   RUC              |-> request.RUC,
                   Name             |-> request.CompanyName,
                   Lines            |-> request.Documents],
          err |-> NilError]

(***************************************************************************)
(* XMLSigner and SUNATClient.SignXML (signer/xmlsigner.go, sunat.go)       *)
(***************************************************************************)

\* The three spellings of an empty ExtensionContent element that
\* createSignatureTemplate looks for, in the order it tests them.
TemplateForms ==
    << "<ext:ExtensionContent>\n    </ext:ExtensionContent>",
       "<ext:ExtensionContent></ext:ExtensionContent>",
       "<ext:ExtensionContent/>" >>

\* The ExtensionContent element once the signature template is injected.
InjectedExtensionContent ==
    "<ext:ExtensionContent>\n<ds:Signature Id=\"SignatureSP\">\n    </ext:ExtensionContent>"

\* createSignatureTemplate: xmlns:ds is added to an <Invoice element that
\* lacks it, and the first of the three forms found is replaced by the
\* signature template; none found is an error.
createSignatureTemplate(xml) ==
    IF \E i \in 1..3 : xml.ExtensionContent = TemplateForms[i]
    THEN [template |-> [xml EXCEPT
                            !.ds = xml.ds \/ xml.root = "Invoice",
                            !.ExtensionContent = InjectedExtensionContent],
          err |-> NilError]
    ELSE [template |-> NilDocument,
          err |-> <<"no suitable ExtensionContent found for signature injection">>]

\* What xmlsec1 writes to the output file for a template: the template
\* with the signature filled in.
Xmlsec1Sign(template) == [signedFrom |-> template]

\* What the programs and files a signature needs may do: xmlsec1 is not
\* installed, the template cannot be written, xmlsec1 exits with an error,
\* its output lacks "Signature status: OK", the signed file cannot be read,
\* or all goes well.
SignOutcomes == {"missing", "write", "fail", "status", "read", "ok"}

\* XMLSigner.SignXML run alone: the signed document, or the error of the
\* step that failed.
XMLSigner_SignXML(xmlContent, env) ==
    LET t == createSignatureTemplate(xmlContent) IN
    IF t.err # NilError THEN
        [signed |-> NilDocument,
         err |-> Wrap("failed to create signature template", t.err)]
    ELSE IF env = "write" THEN
        [signed |-> NilDocument, err |-> Wrap("failed to write template file", <<"os">>)]
    ELSE IF env = "fail" THEN
        [signed |-> NilDocument, err |-> Wrap("xmlsec1 signing failed", <<"exec">>)]
    ELSE IF env = "status" THEN
        [signed |-> NilDocument, err |-> <<"signing failed - xmlsec1 output">>]
    ELSE IF env = "read" THEN
        [signed |-> NilDocument, err |-> Wrap("failed to read signed XML", <<"os">>)]
    ELSE [signed |-> Xmlsec1Sign(t.template), err |-> NilError]

\* SUNATClient.SignXML
SignXML(hasSigner, xmlContent, env) ==
    IF ~hasSigner THEN
        [signed |-> NilDocument,
         err |-> <<"certificate not configured - use SetCertificate() first">>]
    ELSE IF env = "missing" THEN
        [signed |-> NilDocument,
         err |-> Wrap("xmlsec1 not found - please install xmlsec1", <<"exec">>)]
    ELSE IF XMLSigner_SignXML(xmlContent, env).err # NilError THEN
        [signed |-> NilDocument,
         err |-> Wrap("failed to sign XML", XMLSigner_SignXML(xmlContent, env).err)]
    ELSE [signed |-> XMLSigner_SignXML(xmlContent, env).signed, err |-> NilError]

(***************************************************************************)
(* SendVoidedDocuments and GetVoidedDocumentsStatus                        *)
(***************************************************************************)

\* SendVoidedDocuments: what it returns and the steps it performs after the
\* validation: "generate", "sign" (SignXML called), "send" (the request
\* handed to http.DefaultClient.Do).
SendVoidedDocuments(request, hasSigner, env, net, reply) ==
    LET v == Validate(request)
        g == GenerateVoidedDocumentsXML(request)
        s == SignXML(hasSigner, g.xml, env)
    IN
    IF v # NilError THEN
        [ret |-> Return(NilResponse, Wrap("invalid request", v)), log |-> << >>]
    ELSE IF g.err # NilError THEN
        [ret |-> Return(NilResponse, Wrap("failed to generate XML", g.err)),
         log |-> <<"generate">>]
    ELSE IF hasSigner /\ s.err # NilError THEN
        [ret |-> Return(NilResponse, Wrap("failed to sign XML", s.err)),
         log |-> <<"generate", "sign">>]
    ELSE LET signing == IF hasSigner THEN <<"generate", "sign">>
                        ELSE <<"generate">>
         IN
         IF net = "create" THEN
            [ret |-> Return(NilResponse, NetError(net)), log |-> signing]
         ELSE IF net # "ok" THEN
            [ret |-> Return(NilResponse, NetError(net)),
             log |-> Append(signing, "send")]
         ELSE [ret |-> Return(parseVoidedDocumentsResponse(reply), NilError),
               log |-> Append(signing, "send")]

\* GetVoidedDocumentsStatus: the body is handed to parseResponse, the
\* parser of sendBill.
GetVoidedDocumentsStatus(ticket, net, body) ==
    IF net # "ok" THEN Return(NilResponse, NetError(net))
    ELSE Return(parseResponse(body), NilError)

(***************************************************************************)
(* SendVoidedDocuments called with every request, then                     *)
(* GetVoidedDocumentsStatus on the ticket it returned                      *)
(***************************************************************************)

\* The request of the README and of the integrated example.
ReadmeRUC == <<"2", "0", "1", "2", "3", "4", "5", "6", "7", "8", "9">>

ReadmeDocuments ==
    << [DocumentTypeCode |-> "01",
        DocumentSeries   |-> <<"F", "0", "0", "1">>,
        DocumentNumber   |-> <<"0", "0", "0", "1", "2", "3">>,
        VoidedReason     |-> "Error en datos del cliente"],
       [DocumentTypeCode |-> "03",
        DocumentSeries   |-> <<"B", "0", "0", "1">>,
        DocumentNumber   |-> <<"0", "0", "0", "4", "5", "6">>,
        VoidedReason     |-> "Duplicado por error del sistema"] >>

ReadmeReferenceDate == [year |-> 2025, month |-> 1, day |-> 18]

ReadmeRequest ==
    [RUC           |-> ReadmeRUC,
     CompanyName   |-> "MI EMPRESA S.A.C.",
     SeriesNumber  |-> GenerateVoidedDocumentsSeries(ReadmeReferenceDate, 1),
     ReferenceDate |-> ReadmeReferenceDate,
     Documents     |-> ReadmeDocuments]

\* The RUCs: empty, the one of the README, three whose eleventh digit is
\* the check digit (6, and the wrapped 0 and 1), ten digits, a letter.
RUCs ==
    { << >>,
      ReadmeRUC,
      <<"2", "0", "1", "2", "3", "4", "5", "6", "7", "8", "6">>,
      <<"2", "0", "1", "0", "0", "0", "7", "0", "9", "7", "0">>,
      <<"2", "0", "1", "0", "0", "0", "0", "0", "1", "3", "1">>,
      <<"2", "0", "1", "2", "3", "4", "5", "6", "7", "8">>,
      <<"2", "0", "1", "2", "3", "4", "5", "6", "7", "8", "X">> }

\* The series identifiers: empty, generated from the reference date,
\* generated from another date, and free text.
SeriesNumbers ==
    { << >>,
      GenerateVoidedDocumentsSeries(ReadmeReferenceDate, 1),
      GenerateVoidedDocumentsSeries([year |-> 2025, month |-> 1, day |-> 17], 1),
      <<"X", "Y", "Z">> }

\* The line items: the two of the README and one failing each check.
LineItems ==
    { ReadmeDocuments[1],
      ReadmeDocuments[2],
      [ReadmeDocuments[1] EXCEPT !.DocumentTypeCode = "02"],
      [ReadmeDocuments[1] EXCEPT !.DocumentSeries = <<"f", "0", "0", "1">>],
      [ReadmeDocuments[1] EXCEPT !.DocumentNumber = << >>],
      [ReadmeDocuments[1] EXCEPT !.VoidedReason = ""] }

RECURSIVE LineItemLists(_)
LineItemLists(n) ==
    IF n = 0 THEN { << >> }
    ELSE LineItemLists(n - 1)
            \cup { Append(l, d) : l \in LineItemLists(n - 1), d \in LineItems }

Requests ==
    { ReadmeRequest }
        \cup [RUC           : RUCs,
              CompanyName   : {"", "MI EMPRESA S.A.C."},
              SeriesNumber  : SeriesNumbers,
              ReferenceDate : {ReadmeReferenceDate},
              Documents     : LineItemLists(MaxDocuments)]

\* The answers of the service to sendSummary: a ticket, a response without
\* a ticket field, a fault.
SendReplies ==
    { <<"<br:sendSummaryResponse", "<ticket>", "A", "</ticket>">>,
      <<"<br:sendSummaryResponse">>,
      <<"<soap-env:Fault", "<faultstring>", "Error", "</faultstring>">> }

\* The answers of the service to getStatus, and a sendBill response.
BodyBill ==
    <<"<br:sendBillResponse", "<applicationResponse>", "QUJD",
      "</applicationResponse>">>

StatusReplies == ServiceBodies \cup {BodyBill}

InitSend ==
    /\ DecodeIdle
    /\ now = 0 /\ qlog = << >> /\ nCalls = 0 /\ nSleeps = 0
    /\ WaitIdle
    /\ BatchIdle
    /\ ValidationIdle /\ FaultIdle /\ ParamIdle /\ SeriesIdle
    /\ CertIdle /\ SignIdle
    /\ rq \in Requests
    /\ cSigner \in BOOLEAN
    /\ xmlsec \in (IF cSigner THEN SignOutcomes ELSE {"ok"})
    /\ sndNet \in NetOutcomes
    /\ sndReply \in (IF sndNet = "ok" THEN SendReplies ELSE {<< >>})
    /\ sndLog = << >>
    /\ sndRet = NoReturn
    /\ gNet = "ok" /\ gBody = << >> /\ gRet = NoReturn

\* One call of SendVoidedDocuments.
CallSendVoidedDocuments ==
    /\ sndRet = NoReturn
    /\ sndRet' = SendVoidedDocuments(rq, cSigner, xmlsec, sndNet, sndReply).ret
    /\ sndLog' = SendVoidedDocuments(rq, cSigner, xmlsec, sndNet, sndReply).log
    /\ UNCHANGED <<decodeVars, clockVars, waitVars, batchVars, validationVars,
                   faultVars, paramVars, seriesVars, certVars, signVars,
                   rq, cSigner, xmlsec, sndNet, sndReply, gNet, gBody, gRet>>

\* One call of GetVoidedDocumentsStatus with the ticket of the response
\* SendVoidedDocuments returned.
CallGetVoidedDocumentsStatus ==
    /\ sndRet # NoReturn
    /\ sndRet.result # NilResponse
    /\ gRet = NoReturn
    /\ \E net \in NetOutcomes :
       \E body \in (IF net = "ok" THEN StatusReplies ELSE {<< >>}) :
            /\ gNet' = net
            /\ gBody' = body
            /\ gRet' = GetVoidedDocumentsStatus(sndRet.result.Ticket, net, body)
    /\ UNCHANGED <<decodeVars, clockVars, waitVars, batchVars, validationVars,
                   faultVars, paramVars, seriesVars, certVars, signVars,
                   rq, cSigner, xmlsec, sndNet, sndReply, sndLog, sndRet>>

NextSend == CallSendVoidedDocuments \/ CallGetVoidedDocumentsStatus

SpecSend == InitSend /\ [][NextSend]_vars

(***************************************************************************)
(* Properties of SendVoidedDocuments and GetVoidedDocumentsStatus          *)
(***************************************************************************)

\* SendVoidedDocuments has returned.
SndReturned == sndRet # NoReturn

\* SendVoidedDocuments has returned the error of the validation.
SndRejected ==
    SndReturned /\ sndRet.err # NilError /\ Head(sndRet.err) = "invalid request"

\* The batch fields of the request pass their checks.
BatchFieldsOk ==
    /\ ValidateRUC(rq.RUC)
    /\ rq.CompanyName # ""
    /\ rq.SeriesNumber # << >>
    /\ Len(rq.Documents) > 0

\* A line item passes the field-level checks.
LineOk(doc) ==
    /\ ValidateDocumentType(doc.DocumentTypeCode)
    /\ ValidateDocumentSeries(doc.DocumentSeries)
    /\ ValidateDocumentNumber(doc.DocumentNumber)
    /\ doc.VoidedReason # ""

\* The position of the first line item that fails, 0 when none does.
FirstBadLine ==
    IF \E i \in 1..Len(rq.Documents) : ~LineOk(rq.Documents[i])
    THEN CHOOSE i \in 1..Len(rq.Documents) :
            /\ ~LineOk(rq.Documents[i])
            /\ \A j \in 1..(i - 1) : LineOk(rq.Documents[j])
    ELSE 0

IsSeriesOf(s, date) ==
    /\ Len(s) = 15
    /\ SubSeq(s, 1, 3) = <<"R", "A", "-">>
    /\ \A i \in 4..11 : IsDigit(s[i])
    /\ Atoi(SubSeq(s, 4, 7)) = date.year
    /\ Atoi(SubSeq(s, 8, 9)) = date.month
    /\ Atoi(SubSeq(s, 10, 11)) = date.day
    /\ s[12] = "-"
    /\ \A i \in 13..15 : IsDigit(s[i])

\* C22 as stated: every batch that passes the validation has a series
\* identifier of the form RA-<YYYYMMDD of its ReferenceDate>-<3 digits>.
C22_ValidatedSeriesHasForm ==
    (SndReturned /\ ~SndRejected) => IsSeriesOf(rq.SeriesNumber, rq.ReferenceDate)

\* C23 as stated: the request of the README and of the integrated example
\* passes the validation.
C23_ReadmeRequestValidates ==
    (SndReturned /\ rq = ReadmeRequest) => ~SndRejected

\* GetVoidedDocumentsStatus has returned.
GReturned == gRet # NoReturn

\* C24 as stated: after SendVoidedDocuments returned a ticket,
\* GetVoidedDocumentsStatus answered with a getStatus response of
\* statusCode "0" reports Success = TRUE with the CDR in
\* ApplicationResponse.
C24_ProcessedTicketReported ==
    (/\ GReturned
     /\ sndRet.result.Success /\ sndRet.result.Ticket # << >>
     /\ gNet = "ok" /\ gBody = BodyProcessed)
        => /\ gRet.err = NilError
           /\ gRet.result.Success
           /\ Len(gRet.result.ApplicationResponse.data) > 0

\* C25 as stated: a response of SendVoidedDocuments with Success = TRUE
\* holds a ticket.
C25_SuccessHasTicket ==
    (SndReturned /\ sndRet.result # NilResponse /\ sndRet.result.Success)
        => sndRet.result.Ticket # << >>

\* C30 as stated: on a client with a certificate and a working xmlsec1 a
\* valid request is signed and proceeds to the send step.
C30_GeneratedDocumentIsSigned ==
    (SndReturned /\ ~SndRejected /\ cSigner /\ xmlsec = "ok" /\ sndNet # "create")
        => /\ sndLog = <<"generate", "sign", "send">>
           /\ ~(sndRet.err # NilError /\ Head(sndRet.err) = "failed to sign XML")

\* C27 as stated: in every result of ValidationClient's parser IsValid
\* implies Success.
C27_ValidImpliesSuccess ==
    VParsed => (vResult.IsValid => vResult.Success)

(***************************************************************************)
(* Termination of WaitForTicketProcessing (SpecWaitFair)                   *)
(***************************************************************************)

\* The loop runs in the caller's goroutine with nothing else to wait for: a
\* query returns (the transport has its own timeout) and time.Sleep returns,
\* so a step that can be taken is taken.
SpecWaitFair == SpecWait /\ WF_vars(NextWait)

\* The calls of QueryVoidedDocumentsTicket the loop has made.
Queries == Len(qlog)

\* Every query made so far took no time.
ZeroDurations == \A i \in DOMAIN qlog : qlog[i].end = qlog[i].start

\* The quotient rounded up, for m >= 0 and p > 0.
CeilDiv(m, p) == (m + p - 1) \div p

\* The most queries a wait of maxWait with sleeps of p can make when queries
\* take no time: one, and one more per sleep begun before the deadline.
QueryBound(maxWait, p) == IF maxWait <= 0 THEN 1 ELSE CeilDiv(maxWait, p) + 1

\* C26 as stated: with queries taking no time, the loop makes at most
\* floor(maxWaitTime / pollInterval) + 1 queries (pollInterval as defaulted
\* at entry).
C26_FloorQueryBound ==
    (wpc # "start" /\ wpc # "idle" /\ ZeroDurations)
        => Queries <= (maxWaitTime \div pollInterval) + 1

\* C26: WaitForTicketProcessing returns for every maxWaitTime and every
\* pollInterval, whatever the service answers; when it has returned it has
\* made at least one query, also for a zero or negative maxWaitTime; and
\* with queries taking no time it makes at most one query for a maxWaitTime
\* of zero or less and at most ceil(maxWaitTime / pollInterval) + 1 otherwise
\* (pollInterval as defaulted at entry).
C26_TerminatesWithinQueryBound ==
    /\ <>(wpc = "done")
    /\ [](wpc = "done" => Queries >= 1)
    /\ []((wpc # "start" /\ ZeroDurations)
            => Queries <= QueryBound(maxWaitTime, pollInterval))

\* The service answers "98" to every query of a wait of 3 with sleeps of 2:
\* the loop ends after three queries that took no time, one more than
\* floor(3 / 2) + 1.
C26_Witness ==
    /\ WaitReturned
    /\ wRet.result # NilResponse /\ wRet.result.StatusCode = <<"98">>
    /\ maxWaitTime = 3 /\ pollInterval = 2
    /\ ZeroDurations
    /\ Queries = 3
    /\ Queries = QueryBound(maxWaitTime, pollInterval)
    /\ nSleeps = 2

(***************************************************************************)
(* SetCertificate, SetCertificateFromPFX and SignXML on one client         *)
(* (SpecCert)                                                              *)
(***************************************************************************)

\* The largest number of calls made on the client.
MaxCertCalls == 3

\* The files on the disk when the calls are made; a caller hands
\* SetCertificate these paths or paths of files that do not exist.
FilesOnDisk == {"key.pem", "cert.pem"}

\* NewXMLSigner: the two files must exist and the temporary directory,
\* named after the clock reading nano, must be created.
NewXMLSigner(privateKeyPath, certificatePath, files, mkdirOk, nano) ==
    IF privateKeyPath \notin files THEN
        [signer |-> NilSigner,
         err |-> Wrap("private key file not found", <<privateKeyPath>>)]
    ELSE IF certificatePath \notin files THEN
        [signer |-> NilSigner,
         err |-> Wrap("certificate file not found", <<certificatePath>>)]
    ELSE IF ~mkdirOk THEN
        [signer |-> NilSigner,
         err |-> Wrap("failed to create temp directory", <<"os">>)]
    ELSE [signer |-> [privateKeyPath  |-> privateKeyPath,
                      certificatePath |-> certificatePath,
                      tempDir         |-> nano],
          err |-> NilError]

\* SetCertificate: c.signer, err = signer.NewXMLSigner(...); return err.
\* The signer the client holds afterwards, and the error returned.
SetCertificate(privateKeyPath, certificatePath, files, mkdirOk, nano) ==
    NewXMLSigner(privateKeyPath, certificatePath, files, mkdirOk, nano)

\* What may happen to ExtractPEMFromPFX: the PFX file cannot be read or
\* decoded, the output directory cannot be created, or the two PEM files
\* are written.
PfxOutcomes == {"read", "decode", "mkdir", "ok"}

\* ExtractPEMFromPFX: the paths of the files written and the files on the
\* disk afterwards.
ExtractPEMFromPFX(pfx, files) ==
    IF pfx = "read" THEN
        [privateKeyPath |-> "", certPath |-> "", files |-> files,
         err |-> Wrap("failed to read PFX file", <<"os">>)]
    ELSE IF pfx = "decode" THEN
        [privateKeyPath |-> "", certPath |-> "", files |-> files,
         err |-> Wrap("failed to decode PFX", <<"pkcs12">>)]
    ELSE IF pfx = "mkdir" THEN
        [privateKeyPath |-> "", certPath |-> "", files |-> files,
         err |-> Wrap("failed to create output directory", <<"os">>)]
    ELSE [privateKeyPath |-> "private_key.pem", certPath |-> "certificate.pem",
          files |-> files \cup {"private_key.pem", "certificate.pem"},
          err |-> NilError]

\* SetCertificateFromPFX on a client holding the signer cur.
SetCertificateFromPFX(cur, pfx, files, mkdirOk, nano) ==
    LET x == ExtractPEMFromPFX(pfx, files) IN
    IF x.err # NilError
    THEN [signer |-> cur, err |-> Wrap("failed to extract PEM from PFX", x.err)]
    ELSE SetCertificate(x.privateKeyPath, x.certPath, x.files, mkdirOk, nano)

\* The document the client is asked to sign: an invoice with an empty
\* ExtensionContent element in the second spelling.
InvoiceToSign ==
    [root |-> "Invoice", ds |-> FALSE, ExtensionContent |-> TemplateForms[2],
     ID |-> "F001-1"]

\* One call on the client, as the log keeps it: the signer before and after
\* and the error returned.
CertCall(name, before, after, e) ==
    [call |-> name, before |-> before, after |-> after, err |-> e]

InitCert ==
    /\ DecodeIdle
    /\ now = 0 /\ qlog = << >> /\ nCalls = 0 /\ nSleeps = 0
    /\ WaitIdle
    /\ BatchIdle
    /\ ValidationIdle /\ FaultIdle /\ ParamIdle /\ SeriesIdle
    /\ SendIdle /\ SignIdle
    /\ signer = NilSigner
    /\ certLog = << >>

CallSetCertificate ==
    /\ Len(certLog) < MaxCertCalls
    /\ \E k \in {"key.pem", "nokey.pem"}, c \in {"cert.pem", "nocert.pem"},
          mkdirOk \in BOOLEAN :
          LET r == SetCertificate(k, c, FilesOnDisk, mkdirOk, Len(certLog) + 1)
          IN /\ signer' = r.signer
             /\ certLog' = Append(certLog,
                                  CertCall("SetCertificate", signer, r.signer, r.err))
    /\ UNCHANGED <<decodeVars, clockVars, waitVars, batchVars, validationVars,
                   faultVars, paramVars, seriesVars, sendVars, signVars>>

CallSetCertificateFromPFX ==
    /\ Len(certLog) < MaxCertCalls
    /\ \E pfx \in PfxOutcomes, mkdirOk \in BOOLEAN :
          LET r == SetCertificateFromPFX(signer, pfx, FilesOnDisk, mkdirOk,
                                         Len(certLog) + 1)
          IN /\ signer' = r.signer
             /\ certLog' = Append(certLog,
                                  CertCall("SetCertificateFromPFX", signer, r.signer,
                                           r.err))
    /\ UNCHANGED <<decodeVars, clockVars, waitVars, batchVars, validationVars,
                   faultVars, paramVars, seriesVars, sendVars, signVars>>

CallSignXML ==
    /\ Len(certLog) < MaxCertCalls
    /\ \E env \in SignOutcomes :
          LET r == SignXML(signer # NilSigner, InvoiceToSign, env)
          IN certLog' = Append(certLog, CertCall("SignXML", signer, signer, r.err))
    /\ UNCHANGED <<decodeVars, clockVars, waitVars, batchVars, validationVars,
                   faultVars, paramVars, seriesVars, sendVars, signVars, signer>>

NextCert == CallSetCertificate \/ CallSetCertificateFromPFX \/ CallSignXML

SpecCert == InitCert /\ [][NextCert]_vars

(***************************************************************************)
(* Properties of the certificate calls (SpecCert)                          *)
(***************************************************************************)

\* The call is one of the two that configure the certificate.
IsSetCall(e) == e.call \in {"SetCertificate", "SetCertificateFromPFX"}

NotConfigured == <<"certificate not configured - use SetCertificate() first">>

\* C28 as stated: a call of SetCertificate or SetCertificateFromPFX that
\* returns an error leaves the signer of the client as it was, and SignXML
\* returns the "certificate not configured" error only if no earlier call
\* of the two succeeded.
C28_FailedSetKeepsSigner ==
    \A i \in DOMAIN certLog :
        /\ (IsSetCall(certLog[i]) /\ certLog[i].err # NilError)
              => certLog[i].after = certLog[i].before
        /\ (certLog[i].call = "SignXML" /\ certLog[i].err = NotConfigured)
              => ~\E j \in 1..(i - 1) :
                     IsSetCall(certLog[j]) /\ certLog[j].err = NilError

(***************************************************************************)
(* Concurrent calls of XMLSigner.SignXML on one signer (SpecSign)          *)
(***************************************************************************)

\* The calls running at the same time on the signer of one client.
Calls == {1, 2}

\* The documents handed to SignXML: two invoices in each of the three
\* recognised spellings of the empty ExtensionContent element, and one in
\* the spelling GenerateVoidedDocumentsXML writes.
DocumentsToSign ==
    { [root |-> "Invoice", ds |-> FALSE, ExtensionContent |-> TemplateForms[i],
       ID |-> id] : i \in 1..3, id \in {"F001-1", "F001-2"} }
    \cup { [root |-> "VoidedDocuments", ds |-> TRUE,
            ExtensionContent |-> GeneratedExtensionContent, ID |-> "RA-1"] }

\* tempDir/template.xml and tempDir/signed.xml before the first call.
NoFile == [isNoFile |-> TRUE]

InitSign ==
    /\ DecodeIdle
    /\ now = 0 /\ qlog = << >> /\ nCalls = 0 /\ nSleeps = 0
    /\ WaitIdle
    /\ BatchIdle
    /\ ValidationIdle /\ FaultIdle /\ ParamIdle /\ SeriesIdle
    /\ SendIdle /\ CertIdle
    /\ xIn \in [Calls -> DocumentsToSign]
    /\ xpc = [p \in Calls |-> "write"]
    /\ templateFile = NoFile
    /\ signedFile = NoFile
    /\ xRet = [p \in Calls |-> NoReturn]

\* Call p builds its template and writes it to tempDir/template.xml.
SignWriteTemplate(p) ==
    /\ xpc[p] = "write"
    /\ \E env \in {"write", "ok"} :
          LET t == createSignatureTemplate(xIn[p]) IN
          IF t.err # NilError THEN
              /\ xRet' = [xRet EXCEPT ![p] =
                            Return(NilDocument,
                                   Wrap("failed to create signature template", t.err))]
              /\ xpc' = [xpc EXCEPT ![p] = "done"]
              /\ UNCHANGED templateFile
          ELSE IF env = "write" THEN
              /\ xRet' = [xRet EXCEPT ![p] =
                            Return(NilDocument,
                                   Wrap("failed to write template file", <<"os">>))]
              /\ xpc' = [xpc EXCEPT ![p] = "done"]
              /\ UNCHANGED templateFile
          ELSE
              /\ templateFile' = t.template
              /\ xpc' = [xpc EXCEPT ![p] = "run"]
              /\ UNCHANGED xRet
    /\ UNCHANGED <<decodeVars, clockVars, waitVars, batchVars, validationVars,
                   faultVars, paramVars, seriesVars, sendVars, certVars, xIn,
                   signedFile>>

\* Call p runs xmlsec1 on tempDir/template.xml with tempDir/signed.xml as
\* its output, and tests the output of the program.
SignRunXmlsec1(p) ==
    /\ xpc[p] = "run"
    /\ \E env \in {"fail", "status", "ok"} :
          IF env = "fail" THEN
              /\ xRet' = [xRet EXCEPT ![p] =
                            Return(NilDocument, Wrap("xmlsec1 signing failed", <<"exec">>))]
              /\ xpc' = [xpc EXCEPT ![p] = "done"]
              /\ UNCHANGED signedFile
          ELSE IF env = "status" THEN
              /\ xRet' = [xRet EXCEPT ![p] =
                            Return(NilDocument, <<"signing failed - xmlsec1 output">>)]
              /\ xpc' = [xpc EXCEPT ![p] = "done"]
              /\ UNCHANGED signedFile
          ELSE
              /\ signedFile' = Xmlsec1Sign(templateFile)
              /\ xpc' = [xpc EXCEPT ![p] = "read"]
              /\ UNCHANGED xRet
    /\ UNCHANGED <<decodeVars, clockVars, waitVars, batchVars, validationVars,
                   faultVars, paramVars, seriesVars, sendVars, certVars, xIn,
                   templateFile>>

\* Call p reads tempDir/signed.xml and returns what it read.
SignReadSigned(p) ==
    /\ xpc[p] = "read"
    /\ \E env \in {"read", "ok"} :
          xRet' = [xRet EXCEPT ![p] =
                      IF env = "read"
                      THEN Return(NilDocument, Wrap("failed to read signed XML", <<"os">>))
                      ELSE Return(signedFile, NilError)]
    /\ xpc' = [xpc EXCEPT ![p] = "done"]
    /\ UNCHANGED <<decodeVars, clockVars, waitVars, batchVars, validationVars,
                   faultVars, paramVars, seriesVars, sendVars, certVars, xIn,
                   templateFile, signedFile>>

NextSign ==
    \E p \in Calls : SignWriteTemplate(p) \/ SignRunXmlsec1(p) \/ SignReadSigned(p)

SpecSign == InitSign /\ [][NextSign]_vars

(***************************************************************************)
(* Properties of the concurrent calls (SpecSign)                           *)
(***************************************************************************)

\* Call p has returned a signed document.
Signed(p) == xpc[p] = "done" /\ xRet[p] # NoReturn /\ xRet[p].err = NilError

\* C29 as stated: whatever the interleaving of the steps of the two calls,
\* a call that returns a signed document returns the signed form of the
\* document it was given.
C29_EachCallSignsItsOwn ==
    \A p \in Calls :
        Signed(p) => xRet[p].result = XMLSigner_SignXML(xIn[p], "ok").signed

=============================================================================
